---- MODULE Spec2Model ----
(***************************************************************************)
(* modbus-proxy: one Bridge (src/src/modbus_proxy.py) between a set of TCP *)
(* clients and one upstream Modbus device.                                 *)
(*                                                                         *)
(* The model follows the asyncio program step by step: one action is the   *)
(* code a task runs between two suspension points (await).  Frames are     *)
(* byte sequences and are cut out of byte streams by the framer, as in the *)
(* code.  The device is the test fixture of src/tests/conftest.py.         *)
(***************************************************************************)
EXTENDS Integers, Sequences, FiniteSets, TLC

\* ---------------------------------------------------------------- bounds
\* number of client connections the listener may accept
NumClients == 2
\* number of request frames the clients send, all together
MaxReq == 2
\* number of disruptive events of the environment: device drops and
\* outages, expiries of the timeout, close() and stop() calls
MaxEvents == 2
\* The request frames the clients send, all together, where the order at the
\* lock is looked at.
MaxReqFifo == 3
\* The frames of the stream a client sends, where the protocols are looked at.
MaxFrames == 2

\* ------------------------------------------------------ program constants
\* write_read_response_frame(self, request_frame, attempts=2)
Attempts == 2
\* TCPProtocol.read_frame: read_exactly(6)
HeaderSize == 6

Clients == 1..NumClients

\* ------------------------------------------------------- frames (bytes)
\* read_holding_registers(unit=1, start=1, size=4) and its reply
REQ_TCP == <<109, 245, 0, 0, 0, 6, 1, 3, 0, 1, 0, 4>>
REP_TCP == <<109, 245, 0, 0, 0, 11, 1, 3, 8, 0, 1, 0, 2, 0, 3, 0, 4>>
\* read_holding_registers(unit=1, start=2, size=3) and its reply
REQ2_TCP == <<109, 245, 0, 0, 0, 6, 1, 3, 0, 2, 0, 3>>
REP2_TCP == <<109, 245, 0, 0, 0, 9, 1, 3, 6, 0, 2, 0, 3, 0, 4>>

RequestFrames == {REQ_TCP, REQ2_TCP}

\* The k-th request of client c: two clients never send the same frame as
\* their k-th request, and no client sends the same frame twice in a row,
\* so that a reply given to the wrong request or client shows.
RequestOf(c, k) == IF (c + k) % 2 = 0 THEN REQ_TCP ELSE REQ2_TCP

\* Mutant: the last byte alone.
from_bytes_last(b) == IF b = <<>> THEN 0 ELSE b[Len(b)]

\* int.from_bytes(b, "big")
RECURSIVE from_bytes_big(_)
from_bytes_big(b) ==
    IF b = <<>> THEN 0
    ELSE 256 * from_bytes_big(SubSeq(b, 1, Len(b) - 1)) + b[Len(b)]

\* The bytes after the first n of a stream.
Drop(s, n) == SubSeq(s, n + 1, Len(s))

\* reader.readexactly(n) on a stream holding s: can it return now?
CanReadExactly(s, n) == Len(s) >= n

\* Mutant: the size is taken from header[3:5].
read_frame_size_shifted(header) == from_bytes_big(SubSeq(header, 4, 5))

\* Mutant: the frame is whatever the stream holds once the header is there.
read_frame_greedy(s) ==
    [ok |-> Len(s) >= HeaderSize, frame |-> s, rest |-> <<>>]

\* TCPProtocol.read_frame, on a byte stream: the frame it returns and what it
\* leaves in the stream; ok is FALSE while the stream holds no whole frame
\* (readexactly waits, or raises IncompleteReadError at end of stream).
read_frame_size(header) == from_bytes_big(SubSeq(header, 5, HeaderSize))

read_frame(s) ==
    IF ~CanReadExactly(s, HeaderSize)
    THEN [ok |-> FALSE, frame |-> <<>>, rest |-> s]
    ELSE LET header == SubSeq(s, 1, HeaderSize)
             size == read_frame_size(header)
             body == Drop(s, HeaderSize)
         IN  IF ~CanReadExactly(body, size)
             THEN [ok |-> FALSE, frame |-> <<>>, rest |-> s]
             ELSE [ok |-> TRUE,
                   frame |-> header \o SubSeq(body, 1, size),
                   rest |-> Drop(body, size)]

\* The device of the tests: the reply to a request frame (<<>>: the fixture
\* raises ValueError and its connection ends).
DeviceReply(data) ==
    IF data = REQ_TCP THEN REP_TCP
    ELSE IF data = REQ2_TCP THEN REP2_TCP
    ELSE <<>>

\* ------------------------------------------------------------------ state
VARIABLES
    server,            \* Bridge.server: "none" (None), "serving", "closed"
    link,              \* Bridge.transport.writer: "none" (None), "open", "lost"
    upEof,             \* the device has closed the upstream connection (EOF fed)
    devIn,             \* bytes written to the upstream, not yet read by the device
    upBuf,             \* bytes sent by the device, not yet read by the bridge
    deviceUp,          \* the device accepts connections
    connection_time,   \* Bridge.connection_time
    scheme,            \* the scheme of the modbus url of the configuration,
                       \* as the sequence of its parts between "+"
    url,               \* the modbus url of the configuration, as the sequence
                       \* of its pieces ("tcp", "+", ":", "/", "host", "502", ...)
    url_parsed,        \* url_parsed of transport_protocol_for_url (<<>>: no
                       \* call has parsed the url)
    transport_protocol, \* what transport_protocol_for_url returned (<<>>: it
                       \* has not returned)
    serving_forever,   \* a call of Bridge.serve_forever is inside
                       \* "async with self.server"
    timeout,           \* Bridge.timeout: None, or a number of seconds
    wrote,             \* history: the writes of requests to the upstream, each
                       \* <<client, index of the request in its session>>
    received,          \* history: the frames the device has read
    run_pc,            \* where run_bridges stands: "none" (not called), "enter",
                       \* "start", "serve", "unwind", "exited"
    ready,             \* the ready argument of run_bridges: "none" (None),
                       \* "unset", "set"
    stack,             \* the bridges whose context the AsyncExitStack holds
    bridges,           \* the bridges of run_bridges: for each its server, its
                       \* upstream link ("none", "connecting", "open",
                       \* "closing"), its task of run_bridges and its client
                       \* session
    results,           \* the results given to one call of the exchange: the
                       \* link it finds, what the connect and the write/read
                       \* of each attempt do, what the write to the client does
    old,               \* ModBus.write_read and ModBus.handle_client of
                       \* version 0.5.0 on these results
    new,               \* Bridge.write_read_response_frame and
                       \* Bridge.handle_client on these results
    locked,            \* Bridge.lock._locked
    waiters,           \* Bridge.lock._waiters, in order of arrival
    woken,             \* the first waiter's future is done, its task not resumed
    pc,                \* where each client's handle_client task stands
    attempt,           \* i of "for i in range(attempts)"
    request_frame,     \* request_frame of handle_client_message
    cst,               \* the client's end: "idle", "open", "closed"
    cliIn,             \* bytes sent by the client, not yet read by the bridge
    sent,              \* the frames each client has sent, in order
    written,           \* the frames the bridge has written to each client
    session_end,       \* what made handle_client leave its loop: "no" (it
                       \* runs), "client_read", "exchange", "client_write"
    nstops,            \* stop() calls that have returned
    raised,            \* the exception the last Bridge call ended with
    events             \* disruptive events so far

vars ==
    <<server, link, upEof, devIn, upBuf, deviceUp,
      connection_time, scheme, url, url_parsed, transport_protocol, serving_forever,
      timeout, wrote, received, run_pc, ready, stack, bridges,
      results, old, new,
      locked, waiters, woken, pc, attempt, request_frame,
      cst, cliIn, sent, written, session_end, nstops, raised, events>>

upstreamVars == <<link, upEof, devIn, upBuf>>
lockVars == <<locked, waiters, woken>>
clientVars == <<cst, cliIn, sent>>
apiVars == <<server, nstops, raised>>
retryVars == <<timeout, wrote, received>>
runVars == <<run_pc, ready, stack, bridges>>
versionVars == <<results, old, new>>
auxVars == <<retryVars, runVars, versionVars>>
configVars ==
    <<connection_time, scheme, url, url_parsed, transport_protocol,
      serving_forever, auxVars>>

\* Bridge.__init__ (server None, a fresh lock, transport not connected), no
\* client connected, the device listening.
Init ==
    /\ server = "none"
    /\ link = "none"
    /\ upEof = FALSE
    /\ devIn = <<>>
    /\ upBuf = <<>>
    /\ deviceUp = TRUE
    /\ connection_time \in {0, 1}
    /\ scheme = <<"tcp">>
    /\ url = <<"host", ":", "502">>
    /\ url_parsed = <<>>
    /\ transport_protocol = <<>>
    /\ serving_forever = FALSE
    /\ timeout = 1
    /\ wrote = <<>>
    /\ received = <<>>
    /\ run_pc = "none"
    /\ ready = "none"
    /\ stack = <<>>
    /\ bridges = <<>>
    /\ results = <<>>
    /\ old = <<>>
    /\ new = <<>>
    /\ locked = FALSE
    /\ waiters = <<>>
    /\ woken = FALSE
    /\ pc = [c \in Clients |-> "none"]
    /\ attempt = [c \in Clients |-> 0]
    /\ request_frame = [c \in Clients |-> <<>>]
    /\ cst = [c \in Clients |-> "idle"]
    /\ cliIn = [c \in Clients |-> <<>>]
    /\ sent = [c \in Clients |-> <<>>]
    /\ written = [c \in Clients |-> <<>>]
    /\ session_end = [c \in Clients |-> "no"]
    /\ nstops = 0
    /\ raised = "none"
    /\ events = 0

\* ------------------------------------------------------- upstream transport
\* TCP.is_open of the upstream transport, through Bridge.is_open:
\* writer is not None and not writer.is_closing() and not reader.at_eof()
\* (at_eof: EOF fed and the buffer empty).
TCP_is_open == link = "open" /\ ~(upEof /\ upBuf = <<>>)

Bridge_is_open == TCP_is_open

\* writer.wait_closed() raises the error the connection was lost with.
wait_closed_error(l) == IF l = "lost" THEN "ConnectionResetError" ELSE "none"

ExceptionClasses ==
    {"ConnectionResetError", "ConnectionRefusedError", "IncompleteReadError",
     "TimeoutError", "AttributeError", "RuntimeError"}

\* Mutant: TCP.close() without its try/except.
TCP_close_raises_uncaught(l) == wait_closed_error(l)

\* The exception TCP.close() ends with: what writer.close()/wait_closed()
\* raise is caught by "except Exception" and logged.
TCP_close_raises(l) ==
    IF l = "none" THEN "none"
    ELSE LET error == wait_closed_error(l)
         IN  IF error \in ExceptionClasses THEN "none" ELSE error

\* TCP.close() of the upstream transport: the connection and what was in
\* flight on it are gone, reader and writer are None.
TCP_close ==
    /\ link' = "none"
    /\ upEof' = FALSE
    /\ devIn' = <<>>
    /\ upBuf' = <<>>

Bridge_close == TCP_close

\* TCP.write(data) on the connected upstream: the bytes reach the device
\* unless it has closed its end.
TCP_write(data) ==
    /\ devIn' = IF upEof THEN devIn ELSE devIn \o data
    /\ UNCHANGED <<link, upEof, upBuf>>

\* ------------------------------------------------------------ asyncio.Lock
\* Mutant: the exchange does not look at the lock.
Lock_free_always == TRUE

\* Mutant: acquire() takes a lock that is not locked, whoever waits.
Lock_free_barging == ~locked

\* Lock.acquire() returns at once: not locked and nobody waiting.
Lock_free == ~locked /\ waiters = <<>>

\* Mutant: release() unlocks and wakes nobody up.
Lock_release_no_wakeup ==
    /\ locked' = FALSE
    /\ woken' = FALSE
    /\ UNCHANGED waiters

\* Lock.release(): unlock and wake the first waiter up.
Lock_release ==
    /\ locked' = FALSE
    /\ woken' = (waiters # <<>>)
    /\ UNCHANGED waiters

\* ------------------------------------------------------------- the clients
\* The number of request frames sent so far.
RECURSIVE SentUpTo(_)
SentUpTo(n) == IF n = 0 THEN 0 ELSE SentUpTo(n - 1) + Len(sent[n])

TotalSent == SentUpTo(NumClients)

\* A client connects: the listener accepts and start_server runs
\* handle_client in a new task, up to its first read.
ClientConnect(c) ==
    /\ server = "serving"
    /\ cst[c] = "idle"
    /\ cst' = [cst EXCEPT ![c] = "open"]
    /\ pc' = [pc EXCEPT ![c] = "read"]
    /\ UNCHANGED <<upstreamVars, lockVars, apiVars, configVars, deviceUp,
                   attempt, request_frame, cliIn, sent, written, session_end, events>>

\* A client writes its next request frame (it need not wait for the replies
\* to the earlier ones).
ClientSend(c) ==
    /\ cst[c] = "open"
    /\ pc[c] # "done"
    /\ TotalSent < MaxReq
    /\ cliIn' = [cliIn EXCEPT ![c] = @ \o RequestOf(c, Len(sent[c]) + 1)]
    /\ sent' = [sent EXCEPT ![c] = Append(@, RequestOf(c, Len(sent[c]) + 1))]
    /\ UNCHANGED <<upstreamVars, lockVars, apiVars, configVars, deviceUp,
                   pc, attempt, request_frame, cst, written, session_end, events>>

\* A client closes its connection: at once, after a request it does not
\* wait the reply of, or after its replies.
ClientClose(c) ==
    /\ cst[c] = "open"
    /\ cst' = [cst EXCEPT ![c] = "closed"]
    /\ UNCHANGED <<upstreamVars, lockVars, apiVars, configVars, deviceUp,
                   pc, attempt, request_frame, cliIn, sent, written, session_end, events>>

\* --------------------------------------------------------------- the device
\* The device reads one request frame and writes its reply.
DeviceAnswer ==
    /\ link = "open"
    /\ ~upEof
    /\ read_frame(devIn).ok
    /\ DeviceReply(read_frame(devIn).frame) # <<>>
    /\ devIn' = read_frame(devIn).rest
    /\ upBuf' = upBuf \o DeviceReply(read_frame(devIn).frame)
    /\ UNCHANGED <<link, upEof, lockVars, apiVars, configVars, clientVars,
                   deviceUp, pc, attempt, request_frame, written, session_end, events>>

\* The device closes the connection and keeps listening.
DeviceDrop ==
    /\ link = "open"
    /\ ~upEof
    /\ events < MaxEvents
    /\ events' = events + 1
    /\ upEof' = TRUE
    /\ devIn' = <<>>
    /\ UNCHANGED <<link, upBuf, lockVars, apiVars, configVars, clientVars,
                   deviceUp, pc, attempt, request_frame, written, session_end>>

\* The device goes away: it stops listening and its connection is reset.
DeviceDown ==
    /\ deviceUp
    /\ events < MaxEvents
    /\ events' = events + 1
    /\ deviceUp' = FALSE
    /\ IF link = "open"
       THEN /\ link' = "lost"
            /\ upEof' = FALSE
            /\ devIn' = <<>>
            /\ upBuf' = <<>>
       ELSE UNCHANGED upstreamVars
    /\ UNCHANGED <<lockVars, apiVars, configVars, clientVars,
                   pc, attempt, request_frame, written, session_end>>

\* The device is back.
DeviceUp ==
    /\ ~deviceUp
    /\ deviceUp' = TRUE
    /\ UNCHANGED <<upstreamVars, lockVars, apiVars, configVars, clientVars,
                   pc, attempt, request_frame, written, session_end, events>>

\* ------------------------------------------- Bridge.write_read_response_frame
\* Mutant: "if i == attempts: raise".
LastAttempt_late(i) == i = Attempts

\* "if i + 1 == attempts: raise"
LastAttempt(i) == i + 1 = Attempts

\* Mutant: the handler of a failed attempt does not close the upstream.
AttemptFailed_keeps_link(c) ==
    /\ UNCHANGED upstreamVars
    /\ IF LastAttempt(attempt[c])
       THEN /\ Lock_release
            /\ pc' = [pc EXCEPT ![c] = "done"]
            /\ session_end' = [session_end EXCEPT ![c] = "exchange"]
            /\ attempt' = [attempt EXCEPT ![c] = 0]
            /\ request_frame' = [request_frame EXCEPT ![c] = <<>>]
       ELSE /\ attempt' = [attempt EXCEPT ![c] = @ + 1]
            /\ pc' = [pc EXCEPT ![c] = "attempt"]
            /\ UNCHANGED <<lockVars, session_end, request_frame>>

\* Mutant: the lock is taken and released by hand, and the raise of the
\* last attempt leaves it locked.
AttemptFailed_holds_lock(c) ==
    /\ Bridge_close
    /\ IF LastAttempt(attempt[c])
       THEN /\ UNCHANGED lockVars
            /\ pc' = [pc EXCEPT ![c] = "done"]
            /\ session_end' = [session_end EXCEPT ![c] = "exchange"]
            /\ attempt' = [attempt EXCEPT ![c] = 0]
            /\ request_frame' = [request_frame EXCEPT ![c] = <<>>]
       ELSE /\ attempt' = [attempt EXCEPT ![c] = @ + 1]
            /\ pc' = [pc EXCEPT ![c] = "attempt"]
            /\ UNCHANGED <<lockVars, session_end, request_frame>>

\* Mutant: handle_client logs the error of the exchange and goes on reading
\* from the client.
AttemptFailed_keeps_session(c) ==
    /\ Bridge_close
    /\ IF LastAttempt(attempt[c])
       THEN /\ Lock_release
            /\ pc' = [pc EXCEPT ![c] = "read"]
            /\ session_end' = [session_end EXCEPT ![c] = "exchange"]
            /\ attempt' = [attempt EXCEPT ![c] = 0]
            /\ request_frame' = [request_frame EXCEPT ![c] = <<>>]
       ELSE /\ attempt' = [attempt EXCEPT ![c] = @ + 1]
            /\ pc' = [pc EXCEPT ![c] = "attempt"]
            /\ UNCHANGED <<lockVars, session_end, request_frame>>

\* Mutant: the lock is taken inside the loop, "for i in range(attempts):
\* async with self.lock:", and a failed attempt gives it up before the retry.
AttemptFailed_unlocks_between(c) ==
    /\ Bridge_close
    /\ Lock_release
    /\ IF LastAttempt(attempt[c])
       THEN /\ pc' = [pc EXCEPT ![c] = "done"]
            /\ session_end' = [session_end EXCEPT ![c] = "exchange"]
            /\ attempt' = [attempt EXCEPT ![c] = 0]
            /\ request_frame' = [request_frame EXCEPT ![c] = <<>>]
       ELSE /\ attempt' = [attempt EXCEPT ![c] = @ + 1]
            /\ pc' = [pc EXCEPT ![c] = "attempt"]
            /\ UNCHANGED <<session_end, request_frame>>

\* "except Exception as error" of an attempt: close the upstream; on the
\* last attempt raise, out of the lock and of handle_client_message, which
\* handle_client answers by closing the client's transport and leaving its
\* loop; go to the next attempt otherwise.
AttemptFailed(c) ==
    /\ Bridge_close
    /\ IF LastAttempt(attempt[c])
       THEN /\ Lock_release
            /\ pc' = [pc EXCEPT ![c] = "done"]
            /\ session_end' = [session_end EXCEPT ![c] = "exchange"]
            /\ attempt' = [attempt EXCEPT ![c] = 0]
            /\ request_frame' = [request_frame EXCEPT ![c] = <<>>]
       ELSE /\ attempt' = [attempt EXCEPT ![c] = @ + 1]
            /\ pc' = [pc EXCEPT ![c] = "attempt"]
            /\ UNCHANGED <<lockVars, session_end, request_frame>>

\* The task is inside "async with self.lock".
InExchange(c) == pc[c] \in {"attempt", "connecting", "delay", "reading"}

\* handle_client_message reads a whole request frame from its client and
\* calls write_read_response_frame, which takes the lock or queues for it.
HandleClientRead(c) ==
    /\ pc[c] = "read"
    /\ read_frame(cliIn[c]).ok
    /\ request_frame' = [request_frame EXCEPT ![c] = read_frame(cliIn[c]).frame]
    /\ cliIn' = [cliIn EXCEPT ![c] = read_frame(cliIn[c]).rest]
    /\ IF Lock_free
       THEN /\ locked' = TRUE
            /\ pc' = [pc EXCEPT ![c] = "attempt"]
            /\ UNCHANGED <<waiters, woken>>
       ELSE /\ waiters' = Append(waiters, c)
            /\ pc' = [pc EXCEPT ![c] = "lock_wait"]
            /\ UNCHANGED <<locked, woken>>
    /\ UNCHANGED <<upstreamVars, apiVars, configVars, deviceUp, attempt, cst,
                   sent, written, session_end, events>>

\* Mutant: what was read of an unfinished frame is passed on as the request.
HandleClientEOF_forwards_partial(c) ==
    /\ pc[c] = "read"
    /\ cst[c] = "closed"
    /\ ~read_frame(cliIn[c]).ok
    /\ IF cliIn[c] # <<>> /\ Lock_free
       THEN /\ request_frame' = [request_frame EXCEPT ![c] = cliIn[c]]
            /\ locked' = TRUE
            /\ pc' = [pc EXCEPT ![c] = "attempt"]
            /\ UNCHANGED <<waiters, woken, session_end>>
       ELSE /\ pc' = [pc EXCEPT ![c] = "done"]
            /\ session_end' = [session_end EXCEPT ![c] = "client_read"]
            /\ UNCHANGED <<lockVars, request_frame>>
    /\ UNCHANGED <<upstreamVars, apiVars, configVars, clientVars,
                   deviceUp, attempt, written, events>>

\* Mutant: the session owns the upstream and closes it when it ends.
HandleClientEOF_closes_upstream(c) ==
    /\ pc[c] = "read"
    /\ cst[c] = "closed"
    /\ ~read_frame(cliIn[c]).ok
    /\ pc' = [pc EXCEPT ![c] = "done"]
    /\ session_end' = [session_end EXCEPT ![c] = "client_read"]
    /\ Bridge_close
    /\ UNCHANGED <<lockVars, apiVars, configVars, clientVars,
                   deviceUp, attempt, request_frame, written, events>>

\* The client's stream ended before a whole frame: IncompleteReadError,
\* handle_client closes the client's transport and leaves its loop.
HandleClientEOF(c) ==
    /\ pc[c] = "read"
    /\ cst[c] = "closed"
    /\ ~read_frame(cliIn[c]).ok
    /\ pc' = [pc EXCEPT ![c] = "done"]
    /\ session_end' = [session_end EXCEPT ![c] = "client_read"]
    /\ UNCHANGED <<upstreamVars, lockVars, apiVars, configVars, clientVars,
                   deviceUp, attempt, request_frame, written, events>>

\* The first waiter, woken up by release(), resumes in Lock.acquire().
LockResume(c) ==
    /\ pc[c] = "lock_wait"
    /\ woken
    /\ waiters # <<>>
    /\ Head(waiters) = c
    /\ waiters' = Tail(waiters)
    /\ woken' = FALSE
    /\ locked' = TRUE
    /\ pc' = [pc EXCEPT ![c] = "attempt"]
    /\ UNCHANGED <<upstreamVars, apiVars, configVars, clientVars, deviceUp,
                   attempt, request_frame, written, session_end, events>>

\* Mutant: TCP.open connects without closing what is left of the old
\* connection.
BeginAttempt_no_close(c) ==
    /\ pc[c] = "attempt"
    /\ IF Bridge_is_open
       THEN /\ TCP_write(request_frame[c])
            /\ pc' = [pc EXCEPT ![c] = "reading"]
       ELSE /\ UNCHANGED upstreamVars
            /\ pc' = [pc EXCEPT ![c] = "connecting"]
    /\ UNCHANGED <<lockVars, apiVars, configVars, clientVars, deviceUp,
                   attempt, request_frame, written, session_end, events>>

\* Top of an attempt: with the upstream open, write the request and wait
\* for the response; otherwise Bridge.open -> TCP.open, which closes what is
\* left of the old connection and starts connecting.
BeginAttempt(c) ==
    /\ pc[c] = "attempt"
    /\ IF Bridge_is_open
       THEN /\ TCP_write(request_frame[c])
            /\ pc' = [pc EXCEPT ![c] = "reading"]
       ELSE /\ TCP_close
            /\ pc' = [pc EXCEPT ![c] = "connecting"]
    /\ UNCHANGED <<lockVars, apiVars, configVars, clientVars, deviceUp,
                   attempt, request_frame, written, session_end, events>>

\* Mutant: Bridge.open() without the sleep of connection_time.
ConnectOk_no_delay(c) ==
    /\ pc[c] = "connecting"
    /\ deviceUp
    /\ link' = "open"
    /\ upEof' = FALSE
    /\ upBuf' = <<>>
    /\ devIn' = request_frame[c]
    /\ pc' = [pc EXCEPT ![c] = "reading"]
    /\ UNCHANGED <<lockVars, apiVars, configVars, clientVars, deviceUp,
                   attempt, request_frame, written, session_end, events>>

\* asyncio.open_connection succeeds; without connection_time the request
\* is written right away.
ConnectOk(c) ==
    /\ pc[c] = "connecting"
    /\ deviceUp
    /\ link' = "open"
    /\ upEof' = FALSE
    /\ upBuf' = <<>>
    /\ IF connection_time > 0
       THEN /\ devIn' = <<>>
            /\ pc' = [pc EXCEPT ![c] = "delay"]
       ELSE /\ devIn' = request_frame[c]
            /\ pc' = [pc EXCEPT ![c] = "reading"]
    /\ UNCHANGED <<lockVars, apiVars, configVars, clientVars, deviceUp,
                   attempt, request_frame, written, session_end, events>>

\* asyncio.open_connection raises: nobody listens.
ConnectFail(c) ==
    /\ pc[c] = "connecting"
    /\ ~deviceUp
    /\ AttemptFailed(c)
    /\ UNCHANGED <<apiVars, configVars, clientVars, deviceUp, written, events>>

\* wait_for(self.transport.open(), self.timeout) expires.
ConnectTimeout(c) ==
    /\ pc[c] = "connecting"
    /\ events < MaxEvents
    /\ events' = events + 1
    /\ AttemptFailed(c)
    /\ UNCHANGED <<apiVars, configVars, clientVars, deviceUp, written>>

\* asyncio.sleep(connection_time) is over: write the request; the write
\* raises when the connection went away meanwhile.
DelayDone(c) ==
    /\ pc[c] = "delay"
    /\ IF link = "open"
       THEN /\ TCP_write(request_frame[c])
            /\ pc' = [pc EXCEPT ![c] = "reading"]
            /\ UNCHANGED <<lockVars, attempt, request_frame, session_end>>
       ELSE AttemptFailed(c)
    /\ UNCHANGED <<apiVars, configVars, clientVars, deviceUp, written, events>>

\* Mutant: the exchange of a client that is gone is given up after the
\* write, the response left unread.
ReadResponse_skips_gone(c) ==
    /\ pc[c] = "reading"
    /\ link = "open"
    /\ read_frame(upBuf).ok
    /\ Lock_release
    /\ attempt' = [attempt EXCEPT ![c] = 0]
    /\ request_frame' = [request_frame EXCEPT ![c] = <<>>]
    /\ IF cst[c] = "closed"
       THEN /\ pc' = [pc EXCEPT ![c] = "done"]
            /\ session_end' = [session_end EXCEPT ![c] = "client_write"]
            /\ UNCHANGED <<written, upBuf>>
       ELSE /\ upBuf' = read_frame(upBuf).rest
            /\ written' = [written EXCEPT ![c] = Append(@, read_frame(upBuf).frame)]
            /\ pc' = [pc EXCEPT ![c] = "read"]
            /\ UNCHANGED session_end
    /\ UNCHANGED <<link, upEof, devIn, apiVars, configVars, clientVars,
                   deviceUp, events>>

\* Mutant: the write to the client is inside the attempt's try block, and
\* its failure closes the upstream.
ReadResponse_closes_on_write_error(c) ==
    /\ pc[c] = "reading"
    /\ link = "open"
    /\ read_frame(upBuf).ok
    /\ Lock_release
    /\ attempt' = [attempt EXCEPT ![c] = 0]
    /\ request_frame' = [request_frame EXCEPT ![c] = <<>>]
    /\ \E delivered \in IF cst[c] = "closed" THEN {TRUE, FALSE} ELSE {TRUE} :
         IF delivered
         THEN /\ written' = [written EXCEPT ![c] = Append(@, read_frame(upBuf).frame)]
              /\ pc' = [pc EXCEPT ![c] = "read"]
              /\ upBuf' = read_frame(upBuf).rest
              /\ UNCHANGED <<session_end, link, upEof, devIn>>
         ELSE /\ pc' = [pc EXCEPT ![c] = "done"]
              /\ session_end' = [session_end EXCEPT ![c] = "client_write"]
              /\ Bridge_close
              /\ UNCHANGED written
    /\ UNCHANGED <<apiVars, configVars, clientVars, deviceUp, events>>

\* Mutant: the client is written a frame made by the bridge, the header of
\* its request with the length of an exception ADU and an exception PDU.
ReadResponse_synthetic(c) ==
    /\ pc[c] = "reading"
    /\ link = "open"
    /\ read_frame(upBuf).ok
    /\ upBuf' = read_frame(upBuf).rest
    /\ Lock_release
    /\ attempt' = [attempt EXCEPT ![c] = 0]
    /\ request_frame' = [request_frame EXCEPT ![c] = <<>>]
    /\ written' = [written EXCEPT ![c] =
                      Append(@, SubSeq(request_frame[c], 1, 4) \o <<0, 3, 1, 131, 4>>)]
    /\ pc' = [pc EXCEPT ![c] = "read"]
    /\ UNCHANGED <<link, upEof, devIn, apiVars, configVars, clientVars,
                   deviceUp, events, session_end>>

\* The response frame is read: the lock is released and handle_client_message
\* writes the reply to its client.  When the client is gone the write raises
\* or not; handle_client closes the client's transport when it raises.
ReadResponse(c) ==
    /\ pc[c] = "reading"
    /\ link = "open"
    /\ read_frame(upBuf).ok
    /\ upBuf' = read_frame(upBuf).rest
    /\ Lock_release
    /\ attempt' = [attempt EXCEPT ![c] = 0]
    /\ request_frame' = [request_frame EXCEPT ![c] = <<>>]
    /\ \E delivered \in IF cst[c] = "closed" THEN {TRUE, FALSE} ELSE {TRUE} :
         IF delivered
         THEN /\ written' = [written EXCEPT ![c] = Append(@, read_frame(upBuf).frame)]
              /\ pc' = [pc EXCEPT ![c] = "read"]
              /\ UNCHANGED session_end
         ELSE /\ pc' = [pc EXCEPT ![c] = "done"]
              /\ session_end' = [session_end EXCEPT ![c] = "client_write"]
              /\ UNCHANGED written
    /\ UNCHANGED <<link, upEof, devIn, apiVars, configVars, clientVars,
                   deviceUp, events>>

\* Reading the response raises: the connection is gone, or it ended before
\* a whole frame.
ReadFail(c) ==
    /\ pc[c] = "reading"
    /\ \/ link # "open"
       \/ upEof /\ ~read_frame(upBuf).ok
    /\ AttemptFailed(c)
    /\ UNCHANGED <<apiVars, configVars, clientVars, deviceUp, written, events>>

\* Mutant: a timeout is retried on the connection as it is.
ExchangeTimeout_keeps_link(c) ==
    /\ pc[c] = "reading"
    /\ events < MaxEvents
    /\ events' = events + 1
    /\ IF LastAttempt(attempt[c])
       THEN /\ Lock_release
            /\ pc' = [pc EXCEPT ![c] = "done"]
            /\ session_end' = [session_end EXCEPT ![c] = "exchange"]
            /\ attempt' = [attempt EXCEPT ![c] = 0]
            /\ request_frame' = [request_frame EXCEPT ![c] = <<>>]
       ELSE /\ attempt' = [attempt EXCEPT ![c] = @ + 1]
            /\ pc' = [pc EXCEPT ![c] = "attempt"]
            /\ UNCHANGED <<lockVars, session_end, request_frame>>
    /\ UNCHANGED <<upstreamVars, apiVars, configVars, clientVars, deviceUp, written>>

\* wait_for(coro, self.timeout) expires while the response is awaited.
ExchangeTimeout(c) ==
    /\ pc[c] = "reading"
    /\ events < MaxEvents
    /\ events' = events + 1
    /\ AttemptFailed(c)
    /\ UNCHANGED <<apiVars, configVars, clientVars, deviceUp, written>>

\* ----------------------------------------------------- the Bridge's calls
\* Bridge.start(), on a bridge that holds no listening server.
Start ==
    /\ server \in {"none", "closed"}
    /\ server' = "serving"
    /\ UNCHANGED <<upstreamVars, lockVars, configVars, clientVars, deviceUp,
                   nstops, raised, pc, attempt, request_frame, written,
                   session_end, events>>

\* Bridge.serve_forever(): start() if there is no server, then serve until
\* cancelled; serving a closed server raises RuntimeError and binds nothing.
ServeForever ==
    /\ server' = IF server = "none" THEN "serving" ELSE server
    /\ UNCHANGED <<upstreamVars, lockVars, configVars, clientVars, deviceUp,
                   nstops, raised, pc, attempt, request_frame, written,
                   session_end, events>>

\* The exception Bridge.stop() ends with: server.close() and
\* server.wait_closed() raise nothing, closed or not, and the rest is
\* Bridge.close().
Bridge_stop_raises == TCP_close_raises(link)

\* Bridge.stop(): close the listener if there is a server, then close the
\* upstream.  On the interpreters setup.py names (3.7 to 3.9)
\* server.wait_closed() returns without suspending once close() was called,
\* so that no other task runs inside stop().
Stop ==
    /\ events < MaxEvents
    /\ events' = events + 1
    /\ server' = IF server = "none" THEN "none" ELSE "closed"
    /\ raised' = Bridge_stop_raises
    /\ Bridge_close
    /\ nstops' = nstops + 1
    /\ UNCHANGED <<lockVars, configVars, clientVars, deviceUp, pc, attempt,
                   request_frame, written, session_end>>

\* Mutant: close() closes the listener as well.
Close_closes_listener ==
    /\ events < MaxEvents
    /\ events' = events + 1
    /\ raised' = TCP_close_raises(link)
    /\ Bridge_close
    /\ server' = IF server = "none" THEN "none" ELSE "closed"
    /\ UNCHANGED <<lockVars, configVars, clientVars, deviceUp,
                   nstops, pc, attempt, request_frame, written, session_end>>

\* Bridge.close(), as __aexit__ calls it.
Close ==
    /\ events < MaxEvents
    /\ events' = events + 1
    /\ raised' = TCP_close_raises(link)
    /\ Bridge_close
    /\ UNCHANGED <<lockVars, configVars, clientVars, deviceUp, server,
                   nstops, pc, attempt, request_frame, written, session_end>>

Next ==
    \/ \E c \in Clients : ClientConnect(c)
    \/ \E c \in Clients : ClientSend(c)
    \/ \E c \in Clients : ClientClose(c)
    \/ DeviceAnswer
    \/ DeviceDrop
    \/ DeviceDown
    \/ DeviceUp
    \/ \E c \in Clients : HandleClientRead(c)
    \/ \E c \in Clients : HandleClientEOF(c)
    \/ \E c \in Clients : LockResume(c)
    \/ \E c \in Clients : BeginAttempt(c)
    \/ \E c \in Clients : ConnectOk(c)
    \/ \E c \in Clients : ConnectFail(c)
    \/ \E c \in Clients : ConnectTimeout(c)
    \/ \E c \in Clients : DelayDone(c)
    \/ \E c \in Clients : ReadResponse(c)
    \/ \E c \in Clients : ReadFail(c)
    \/ \E c \in Clients : ExchangeTimeout(c)
    \/ Start
    \/ ServeForever
    \/ Stop
    \/ Close

Spec == Init /\ [][Next]_vars

\* The steps of client c's handle_client task.
HandlerStep(c) ==
    \/ HandleClientRead(c)
    \/ HandleClientEOF(c)
    \/ LockResume(c)
    \/ BeginAttempt(c)
    \/ ConnectOk(c)
    \/ ConnectFail(c)
    \/ DelayDone(c)
    \/ ReadResponse(c)
    \/ ReadFail(c)

\* The event loop runs every task that can run, and the device answers the
\* requests it is sent.
FairSpec ==
    /\ Spec
    /\ \A c \in Clients : WF_vars(HandlerStep(c))
    /\ WF_vars(DeviceAnswer)

\* ------------------------------------------------------------------ claims
\* The tasks inside "async with self.lock".
Holders == {c \in Clients : InExchange(c)}

\* C1: at most one exchange is in progress on the upstream: the tasks that
\* connect, wait after the connect, write to or read from the upstream are
\* inside the lock, at most one task is, and the lock is then locked.
C1_AtMostOneExchange ==
    /\ Cardinality(Holders) <= 1
    /\ Holders # {} => locked

\* Two clients have a request each at the lock: one is inside an exchange,
\* the other one waits.
C1_Witness ==
    \E a, b \in Clients :
        /\ pc[a] = "reading"
        /\ pc[b] = "lock_wait"

\* C2: every frame the bridge writes to a client is the device's reply to
\* the request most recently read from that client.
C2_OwnResponse ==
    [][\A c \in Clients :
          written'[c] # written[c] =>
              written'[c] = Append(written[c], DeviceReply(request_frame[c]))]_vars

\* Two clients, with different requests, have both been written a reply.
C2_Witness ==
    \E a, b \in Clients :
        /\ a # b
        /\ Len(written[a]) = 1
        /\ Len(written[b]) = 1
        /\ sent[a] # sent[b]

\* The request client c's task is at: its replies so far answer the ones
\* before it.
CurrentRequest(c) == sent[c][Len(written[c]) + 1]

\* C3: the bytes written to the upstream are the bytes of the request frame
\* the client sent, and the bytes written to the client are the bytes taken
\* from the upstream for the response: nothing is added, removed, rewritten.
C3_Verbatim ==
    [][/\ Len(devIn') > Len(devIn) =>
              \E c \in Holders :
                  /\ request_frame[c] = CurrentRequest(c)
                  /\ devIn' = devIn \o CurrentRequest(c)
       /\ \A c \in Clients :
              written'[c] # written[c] =>
                  /\ Len(written'[c]) = Len(written[c]) + 1
                  /\ SubSeq(written'[c], 1, Len(written[c])) = written[c]
                  /\ upBuf = written'[c][Len(written'[c])] \o upBuf']_vars

\* A client has been written the 17 bytes of the reply to its request.
C3_Witness ==
    \E c \in Clients :
        /\ sent[c] = <<REQ_TCP>>
        /\ written[c] = <<REP_TCP>>

\* An attempt of client c's exchange fails in this step: it goes to the
\* next attempt, or the exchange raises.
Retried(c) == attempt'[c] = attempt[c] + 1
Raised(c) == session_end[c] = "no" /\ session_end'[c] = "exchange"

\* C4: an exception in an attempt closes the upstream; while attempts
\* remain the exchange goes on, under the lock, from the connect step; when
\* the last attempt fails the exception leaves the exchange, the upstream
\* closed.
C4_CloseRetryRaise ==
    [][\A c \in Clients :
          /\ Retried(c) =>
                 /\ link' = "none"
                 /\ attempt'[c] < Attempts
                 /\ pc'[c] = "attempt"
                 /\ locked'
          /\ (pc[c] = "attempt" /\ attempt[c] > 0 /\ pc'[c] # pc[c]) =>
                 pc'[c] = "connecting"
          /\ Raised(c) =>
                 /\ link' = "none"
                 /\ attempt[c] + 1 = Attempts
                 /\ pc'[c] = "done"]_vars

\* The last attempt of an exchange has failed.
C4_Witness ==
    \E c \in Clients :
        /\ session_end[c] = "exchange"
        /\ link = "none"

\* No more disruptive event, and the device listens.
Stable == events = MaxEvents /\ deviceUp

\* C5: every exchange ends, with a response or with an error, the lock
\* waited for included; and once the device stays reachable and the events
\* are over, an exchange that starts gets its response (to a client that
\* has not left), whatever state the link was left in.
C5_ReconnectResilience ==
    \A c \in Clients :
        /\ (InExchange(c) \/ pc[c] = "lock_wait") ~> (pc[c] \in {"read", "done"})
        /\ \A k \in 0..(MaxReq - 1) :
               (Stable /\ pc[c] = "attempt" /\ attempt[c] = 0 /\ Len(written[c]) = k)
                   ~> (Len(written[c]) = k + 1 \/ cst[c] = "closed")

\* After a drop of the link, the second attempt is about to get its response.
C5_Witness ==
    \E c \in Clients :
        /\ events > 0
        /\ pc[c] = "reading"
        /\ attempt[c] = 1
        /\ read_frame(upBuf).ok

\* C6: when the exchange of a client fails for good the bridge writes
\* nothing to that client and closes its connection, the listener is left
\* as it is and the upstream closed; a request that comes once the device is
\* back (and stays) gets its response through a new connect.
C6_DeviceNotReachable ==
    /\ [][\A c \in Clients :
             Raised(c) =>
                 /\ written'[c] = written[c]
                 /\ pc'[c] = "done"
                 /\ server' = server
                 /\ ~Bridge_is_open']_vars
    /\ \A c, d \in Clients :
           (session_end[c] = "exchange" /\ Stable /\ pc[d] = "connecting")
               ~> (Len(written[d]) > 0 \/ cst[d] = "closed")

\* A client was dropped with nothing written to it, the device being away;
\* the device is back and another client is about to get its response.
C6_Witness ==
    \E c, d \in Clients :
        /\ session_end[c] = "exchange"
        /\ written[c] = <<>>
        /\ server = "serving"
        /\ deviceUp
        /\ pc[d] = "reading"
        /\ read_frame(upBuf).ok

\* C7: whatever other clients do (close without a request, close before
\* the reply), nothing of an exchange is left on the upstream once no task
\* is in the lock, and every reply written to a client that is still there
\* answers its own request, in order.
C7_MisbehavedClients ==
    /\ (Holders = {} /\ link = "open") => (upBuf = <<>> /\ devIn = <<>>)
    /\ \A c \in Clients :
           cst[c] = "open" =>
               \A k \in 1..Len(written[c]) :
                   written[c][k] = DeviceReply(sent[c][k])

\* A client left before its reply, its exchange was carried out, and another
\* client, still there, is about to get the response of its own exchange.
C7_Witness ==
    \E a, b \in Clients :
        /\ session_end[a] = "client_write"
        /\ cst[b] = "open"
        /\ pc[b] = "reading"
        /\ read_frame(upBuf).ok

\* A client-side end of session in this step.
ClientSideEnd(c) ==
    /\ session_end[c] = "no"
    /\ session_end'[c] \in {"client_read", "client_write"}

C9_StopIdempotent ==
    [][/\ events < MaxEvents => ENABLED Stop
       /\ nstops' = nstops + 1 =>
              /\ server' # "serving"
              /\ link' = "none"
              /\ ~Bridge_is_open'
              /\ raised' = "none"]_vars

\* stop() has returned twice on a bridge that was started.
C9_Witness == nstops >= 2 /\ server = "closed"

\* C10: once stop() has been called the bridge has no listener that
\* accepts clients.
C10_StopIsOneWay == nstops > 0 => server # "serving"

\* ------------------------------------------------------------ cancellation
\* The sequence s without its element c.
Without(s, c) == SelectSeq(s, LAMBDA x : x # c)

\* CancelledError raised in the task of client c while it waits in
\* Lock.acquire(): the waiter leaves the queue and, when it had been woken
\* up, the wake-up goes to the next one.  The error leaves handle_client
\* ("except Exception" does not match it), whose transport context closes
\* the client's connection.
CancelWaiting(c) ==
    /\ pc[c] = "lock_wait"
    /\ events < MaxEvents
    /\ events' = events + 1
    /\ waiters' = Without(waiters, c)
    /\ woken' = IF woken /\ Head(waiters) = c THEN waiters' # <<>> ELSE woken
    /\ pc' = [pc EXCEPT ![c] = "done"]
    /\ session_end' = [session_end EXCEPT ![c] = "cancelled"]
    /\ request_frame' = [request_frame EXCEPT ![c] = <<>>]
    /\ UNCHANGED <<upstreamVars, locked, apiVars, configVars, clientVars,
                   deviceUp, attempt, written>>

\* The upstream after CancelledError went through
\* "await asyncio.wait_for(self.transport.open(), self.timeout)": the
\* connection being made is dropped; at the other suspension points of an
\* attempt (the sleep, the write and read) nothing touches the upstream.
CancelledUpstream(c) ==
    IF pc[c] = "connecting" THEN TCP_close ELSE UNCHANGED upstreamVars

\* CancelledError raised in the task of client c at a suspension point of
\* an attempt.  Where CancelledError is a BaseException (Python 3.8 and
\* later) "except Exception" lets it through: "async with self.lock"
\* releases the lock and the task ends.  Where it is an Exception (Python
\* 3.7) the attempt's handler catches it as any other error.
CancelExchange(c) ==
    /\ pc[c] \in {"connecting", "delay", "reading"}
    /\ events < MaxEvents
    /\ events' = events + 1
    /\ \E caught \in BOOLEAN :
         IF caught
         THEN AttemptFailed(c)
         ELSE /\ CancelledUpstream(c)
              /\ Lock_release
              /\ pc' = [pc EXCEPT ![c] = "done"]
              /\ session_end' = [session_end EXCEPT ![c] = "cancelled"]
              /\ attempt' = [attempt EXCEPT ![c] = 0]
              /\ request_frame' = [request_frame EXCEPT ![c] = <<>>]
    /\ UNCHANGED <<apiVars, configVars, clientVars, deviceUp, written>>

\* The bridge and its environment, the tasks being cancelled at any time.
CancelNext ==
    \/ Next
    \/ \E c \in Clients : CancelWaiting(c)
    \/ \E c \in Clients : CancelExchange(c)

CancelSpec == Init /\ [][CancelNext]_vars

\* The exchange of client c is interrupted in this step: its attempt ends
\* without a response.
Interrupted(c) ==
    /\ InExchange(c)
    /\ \/ Retried(c)
       \/ session_end[c] = "no" /\ session_end'[c] \in {"exchange", "cancelled"}

\* C11: when an exchange is interrupted (timeout, cancellation, stop) the
\* lock does not stay with a task that is gone, and the upstream is closed,
\* or open with no request or response in transit; and so every frame
\* written to a client answers the request of its own exchange.
C11_CancellationSafe ==
    [][\A c \in Clients :
          /\ Interrupted(c) =>
                 /\ locked' => InExchange(c)'
                 /\ link' = "none" \/ (devIn' = <<>> /\ upBuf' = <<>>)
          /\ written'[c] # written[c] =>
                 written'[c] = Append(written[c], DeviceReply(request_frame[c]))]_vars

\* stop() has returned and the bridge was not started again.
Stopped == nstops > 0 /\ server = "closed"

\* C12: once stop() has returned no exchange is in flight or queued, and
\* the upstream is closed and stays so.
C12_StopTearsDown ==
    Stopped => /\ Holders = {}
               /\ waiters = <<>>
               /\ link = "none"

\* C18: a session ends by its client's EOF, by an error, or by stop(): once
\* stop() has returned no session is left that can read a request, and none
\* reads one and starts an exchange.
C18_SessionsEndAtStop ==
    [][Stopped =>
          \A c \in Clients :
              /\ pc[c] \in {"none", "done"}
              /\ ~(pc[c] = "read" /\ pc'[c] \in {"attempt", "lock_wait"})]_vars

\* --------------------------------------------------- the order at the lock
\* A client sends, with the larger budget of requests.
ClientSendMore(c) ==
    /\ cst[c] = "open"
    /\ pc[c] # "done"
    /\ TotalSent < MaxReqFifo
    /\ cliIn' = [cliIn EXCEPT ![c] = @ \o RequestOf(c, Len(sent[c]) + 1)]
    /\ sent' = [sent EXCEPT ![c] = Append(@, RequestOf(c, Len(sent[c]) + 1))]
    /\ UNCHANGED <<upstreamVars, lockVars, apiVars, configVars, deviceUp,
                   pc, attempt, request_frame, cst, written, session_end, events>>

\* The bridge with a device that stays reachable and clients that send
\* more requests: a task can come back to the lock while another one, woken
\* up, has not yet resumed.
FifoNext ==
    \/ Start
    \/ \E c \in Clients : ClientConnect(c)
    \/ \E c \in Clients : ClientSendMore(c)
    \/ \E c \in Clients : ClientClose(c)
    \/ DeviceAnswer
    \/ \E c \in Clients : HandleClientRead(c)
    \/ \E c \in Clients : HandleClientEOF(c)
    \/ \E c \in Clients : LockResume(c)
    \/ \E c \in Clients : BeginAttempt(c)
    \/ \E c \in Clients : ConnectOk(c)
    \/ \E c \in Clients : DelayDone(c)
    \/ \E c \in Clients : ReadResponse(c)

FifoSpec == Init /\ [][FifoNext]_vars

\* The task of client c enters "async with self.lock" in this step.
Enters(c) == ~InExchange(c) /\ InExchange(c)'

\* C13: the exchanges are carried out in the order of arrival at the lock:
\* the queue of waiting tasks grows at its tail only and shrinks at its head
\* only, and a task enters the exchange only when the exchange before it is
\* over and no task that arrived before it is waiting.
C13_FifoAtLock ==
    [][/\ \/ waiters' = waiters
          \/ waiters # <<>> /\ waiters' = Tail(waiters)
          \/ \E c \in Clients : pc[c] = "read" /\ waiters' = Append(waiters, c)
       /\ \A c \in Clients :
              Enters(c) =>
                  /\ Holders = {}
                  /\ devIn = <<>> /\ upBuf = <<>>
                  /\ waiters = <<>> \/ (Head(waiters) = c /\ waiters' = Tail(waiters))]_vars

\* A task arrives at the lock while it is free but promised to the task
\* woken up before: it queues behind it.
C13_Witness ==
    /\ ~locked
    /\ woken
    /\ Len(waiters) = 2

\* ------------------------------------------------------ one client session
\* The number of bytes of the first k frames of a sequence of frames.
RECURSIVE BytesOf(_, _)
BytesOf(frames, k) ==
    IF k = 0 THEN 0 ELSE BytesOf(frames, k - 1) + Len(frames[k])

\* handle_client has read from client c exactly its first k requests.
Consumed(c, k) ==
    /\ k <= Len(sent[c])
    /\ BytesOf(sent[c], Len(sent[c])) - Len(cliIn[c]) = BytesOf(sent[c], k)

\* C14: a session handles one request at a time: while the task waits for
\* the next request every request read has its response written; during an
\* exchange exactly one request, the one being exchanged, has none; and the
\* k-th frame written to a client is the reply to its k-th request.
C14_OneAtATime ==
    \A c \in Clients :
        /\ Consumed(c, Len(written[c])) \/ Consumed(c, Len(written[c]) + 1)
        /\ pc[c] = "read" => Consumed(c, Len(written[c]))
        /\ (InExchange(c) \/ pc[c] = "lock_wait") =>
               /\ Consumed(c, Len(written[c]) + 1)
               /\ request_frame[c] = sent[c][Len(written[c]) + 1]
        /\ \A k \in 1..Len(written[c]) :
               written[c][k] = DeviceReply(sent[c][k])

\* A client has sent two different requests and got the two replies.
C14_Witness ==
    \E c \in Clients :
        /\ Len(sent[c]) = 2
        /\ sent[c][1] # sent[c][2]
        /\ Len(written[c]) = 2

\* ------------------------------------------------------- client-side errors
\* The lengths at which a client gives up in the middle of a frame: inside
\* the header, and inside the body.
PartialLengths == {1, HeaderSize + 1}

\* A client closes its connection in the middle of a request frame.
ClientAbort(c) ==
    /\ cst[c] = "open"
    /\ \E n \in PartialLengths :
         cliIn' = [cliIn EXCEPT ![c] = @ \o SubSeq(RequestOf(c, Len(sent[c]) + 1), 1, n)]
    /\ cst' = [cst EXCEPT ![c] = "closed"]
    /\ UNCHANGED <<upstreamVars, lockVars, apiVars, configVars, deviceUp,
                   pc, attempt, request_frame, sent, written, session_end, events>>

\* The bridge with clients that leave a frame unfinished, and a device that
\* answers or closes its connection.
ClientErrorNext ==
    \/ Start
    \/ \E c \in Clients : ClientConnect(c)
    \/ \E c \in Clients : ClientSend(c)
    \/ \E c \in Clients : ClientClose(c)
    \/ \E c \in Clients : ClientAbort(c)
    \/ DeviceAnswer
    \/ DeviceDrop
    \/ \E c \in Clients : HandleClientRead(c)
    \/ \E c \in Clients : HandleClientEOF(c)
    \/ \E c \in Clients : LockResume(c)
    \/ \E c \in Clients : BeginAttempt(c)
    \/ \E c \in Clients : ConnectOk(c)
    \/ \E c \in Clients : DelayDone(c)
    \/ \E c \in Clients : ReadResponse(c)
    \/ \E c \in Clients : ReadFail(c)

ClientErrorSpec == Init /\ [][ClientErrorNext]_vars

\* What the model holds of the session of client d.
Session(d) ==
    <<pc[d], attempt[d], request_frame[d], cst[d], cliIn[d], sent[d],
      written[d], session_end[d]>>

\* C15: the end of a session on its client's side (EOF, unfinished frame,
\* failed write of the reply) changes nothing else: the listener and the
\* other sessions are as before; at a read error the upstream and the lock
\* are untouched; at a write error the exchange has ended as any other, its
\* response taken off the upstream and the lock released, the link as it was.
C15_ClientErrorIsLocal ==
    [][\A c \in Clients :
          ClientSideEnd(c) =>
              /\ server' = server
              /\ \A d \in Clients \ {c} : Session(d)' = Session(d)
              /\ link' = link /\ upEof' = upEof /\ devIn' = devIn
              /\ IF session_end'[c] = "client_read"
                 THEN upBuf' = upBuf /\ lockVars' = lockVars
                 ELSE /\ upBuf = read_frame(upBuf).frame \o upBuf'
                      /\ ~locked' /\ waiters' = waiters]_vars

\* A session has ended on an unfinished frame while another client's
\* exchange waits for its response on the open link.
C15_Witness ==
    \E a, b \in Clients :
        /\ session_end[a] = "client_read"
        /\ cliIn[a] # <<>>
        /\ pc[b] = "reading"
        /\ link = "open"

\* C16: the bridge makes no frame of its own: the bytes on the upstream come
\* from the device, every frame written to a client is the frame its task
\* reads off the upstream inside its exchange, and when the last attempt
\* fails nothing is written and the session is over.
C16_NoFabricatedFrame ==
    [][/\ Len(upBuf') > Len(upBuf) =>
              /\ read_frame(devIn).ok
              /\ upBuf' = upBuf \o DeviceReply(read_frame(devIn).frame)
       /\ \A c \in Clients :
              /\ written'[c] # written[c] =>
                     /\ pc[c] = "reading"
                     /\ read_frame(upBuf).ok
                     /\ written'[c] = Append(written[c], read_frame(upBuf).frame)
              /\ Raised(c) =>
                     /\ written' = written
                     /\ pc'[c] = "done"]_vars

\* A client got the reply to its first request; the exchange of its second
\* request failed for good and it was written nothing more.
C16_Witness ==
    \E c \in Clients :
        /\ session_end[c] = "exchange"
        /\ Len(sent[c]) = 2
        /\ Len(written[c]) = 1

\* C17: with connection_time > 0 a connect that succeeds is followed by
\* the delay, nothing being written meanwhile; the task in the delay holds
\* the lock and is the only one inside the exchange; and a request is
\* written only by a task past its delay or on a link opened before.
C17_DelayUnderLock ==
    [][\A c \in Clients :
          /\ (pc[c] = "connecting" /\ link' = "open" /\ connection_time > 0) =>
                 /\ pc'[c] = "delay"
                 /\ devIn' = <<>>
          /\ pc[c] = "delay" =>
                 /\ connection_time > 0
                 /\ locked
                 /\ Holders = {c}
                 /\ devIn = <<>>
                 /\ \A d \in Clients \ {c} : ~Enters(d)
          /\ (connection_time > 0 /\ InExchange(c) /\ Len(devIn') > Len(devIn)) =>
                 pc[c] \in {"delay", "attempt"}]_vars

\* A task is in the delay after its connect while another waits for the lock.
C17_Witness ==
    \E a, b \in Clients :
        /\ pc[a] = "delay"
        /\ pc[b] = "lock_wait"

\* ------------------------------------------------------------- protocols
\* Function codes.
READ_COILS == 1
READ_DISCRETE_INPUTS == 2
READ_HOLDING_REGISTERS == 3
READ_INPUT_REGISTERS == 4
WRITE_SINGLE_COIL == 5
WRITE_SINGLE_REGISTER == 6
WRITE_MULTIPLE_COILS == 15
WRITE_MULTIPLE_REGISTERS == 16
READ_EXCEPTION_STATUS == 7

GENERAL_FUNCS ==
    {READ_COILS, READ_DISCRETE_INPUTS, READ_HOLDING_REGISTERS,
     READ_INPUT_REGISTERS, WRITE_SINGLE_COIL, WRITE_SINGLE_REGISTER,
     WRITE_MULTIPLE_COILS, WRITE_MULTIPLE_REGISTERS}

REQ_DYNAMIC == {WRITE_MULTIPLE_COILS, WRITE_MULTIPLE_REGISTERS}
REQ_STATIC == GENERAL_FUNCS \ REQ_DYNAMIC
RESP_STATIC ==
    {WRITE_SINGLE_COIL, WRITE_SINGLE_REGISTER, WRITE_MULTIPLE_COILS,
     WRITE_MULTIPLE_REGISTERS}
RESP_DYNAMIC == GENERAL_FUNCS \ RESP_STATIC

\* read_exactly(n) at the head of a stream: the n bytes and what follows
\* them, or the read does not complete.
NoFrame == [ok |-> FALSE, frame |-> <<>>, rest |-> <<>>]
FrameOf(s, n) ==
    IF Len(s) >= n
    THEN [ok |-> TRUE, frame |-> SubSeq(s, 1, n), rest |-> Drop(s, n)]
    ELSE NoFrame

\* Mutant: no function code is taken for an error.
ErrorBit_never(func) == FALSE

\* "func & 0x80"
ErrorBit(func) == (func \div 128) % 2 = 1

\* RTUProtocol.read_request_frame: 7 bytes, unpacked as ">BBHHB" (address,
\* func, starting address, value, byte count), then byte_count more.
\* Mutant: the byte count of the dynamic functions without the CRC.
rtu_request_byte_count_without_crc(payload) ==
    IF payload[2] \in REQ_STATIC THEN 1
    ELSE IF payload[2] \in REQ_DYNAMIC THEN payload[7]
    ELSE 1

rtu_request_byte_count(payload) ==
    IF payload[2] \in REQ_STATIC THEN 1
    ELSE IF payload[2] \in REQ_DYNAMIC THEN payload[7] + 2
    ELSE 1

rtu_read_request_frame(s) ==
    IF Len(s) < 7 THEN NoFrame
    ELSE FrameOf(s, 7 + rtu_request_byte_count(SubSeq(s, 1, 7)))

\* RTUProtocol.read_response_frame: 2 bytes (address, func); for the
\* dynamic functions one byte more, the byte count; then byte_count + 2.
rtu_read_response_frame(s) ==
    IF Len(s) < 2 THEN NoFrame
    ELSE IF s[2] \in RESP_STATIC THEN FrameOf(s, 2 + 4 + 2)
    ELSE IF s[2] \in RESP_DYNAMIC
         THEN IF Len(s) < 3 THEN NoFrame ELSE FrameOf(s, 3 + s[3] + 2)
    ELSE IF ErrorBit(s[2]) THEN FrameOf(s, 2 + 1 + 2)
    ELSE FrameOf(s, 2 + 0 + 2)

\* ---------------------------------------------------------------------
\* Urls. A url is the sequence of its pieces: the words of the urls of the
\* tests and the separators ":", "/" and "+". The words are lower case, so
\* the lower-casing urlparse does of scheme and hostname changes nothing.
Letters == {"tcp", "rtu", "serial", "rfc2217", "host", "dev", "ttyS0"}
Digits == {"0", "502"}
scheme_chars == Letters \cup Digits \cup {"+"}

\* str.find: the first index of a piece, 0 when it is absent.
Find(s, piece) ==
    IF \E k \in 1..Len(s) : s[k] = piece
    THEN CHOOSE k \in 1..Len(s) : s[k] = piece /\ \A j \in 1..(k - 1) : s[j] # piece
    ELSE 0

\* '"://" in url'
HasSchemeSeparator(u) ==
    \E k \in 1..(Len(u) - 2) : u[k] = ":" /\ u[k + 1] = "/" /\ u[k + 2] = "/"

\* urlparse: the scheme is what stands before the first ":" when it starts
\* with a letter and holds scheme characters only; after "//" the netloc
\* runs up to the next "/"; the rest is the path.
urlparse(u) ==
    LET i == Find(u, ":")
        has_scheme == /\ i > 1
                      /\ u[1] \in Letters
                      /\ \A k \in 1..(i - 1) : u[k] \in scheme_chars
        rest == IF has_scheme THEN Drop(u, i) ELSE u
        has_netloc == Len(rest) >= 2 /\ rest[1] = "/" /\ rest[2] = "/"
        after == Drop(rest, 2)
        j == Find(after, "/")
    IN  [scheme |-> IF has_scheme THEN SubSeq(u, 1, i - 1) ELSE <<>>,
         netloc |-> IF ~has_netloc THEN <<>>
                    ELSE IF j = 0 THEN after ELSE SubSeq(after, 1, j - 1),
         path   |-> IF ~has_netloc THEN rest
                    ELSE IF j = 0 THEN <<>> ELSE Drop(after, j - 1)]

\* ParseResult.hostname: the netloc up to its ":" (<<>>: None).
hostname(result) ==
    IF Find(result.netloc, ":") = 0 THEN result.netloc
    ELSE SubSeq(result.netloc, 1, Find(result.netloc, ":") - 1)

\* ParseResult.port: what follows the ":" of the netloc (<<>>: None).
port(result) ==
    IF Find(result.netloc, ":") = 0 THEN <<>>
    ELSE Drop(result.netloc, Find(result.netloc, ":"))

\* ParseResult.geturl (urlunsplit): "//" and the netloc are written only
\* when the netloc is not empty (no scheme of these urls is in uses_netloc).
geturl(result) ==
    LET tail == IF result.netloc # <<>>
                THEN <<"/", "/">> \o result.netloc \o result.path
                ELSE result.path
    IN  IF result.scheme # <<>> THEN result.scheme \o <<":">> \o tail ELSE tail

\* str.replace("://", "://0")
RECURSIVE replace_separator(_)
replace_separator(u) ==
    IF Len(u) < 3 THEN u
    ELSE IF u[1] = ":" /\ u[2] = "/" /\ u[3] = "/"
         THEN <<":", "/", "/", "0">> \o replace_separator(Drop(u, 3))
         ELSE <<u[1]>> \o replace_separator(Tail(u))

\* parse_url without the second parse.
parse_url_keeps_empty_host(u) ==
    urlparse(IF ~HasSchemeSeparator(u) THEN <<"tcp", ":", "/", "/">> \o u ELSE u)

parse_url(u) ==
    LET url1 == IF ~HasSchemeSeparator(u) THEN <<"tcp", ":", "/", "/">> \o u ELSE u
        result == urlparse(url1)
    IN  IF hostname(result) = <<>>
        THEN urlparse(replace_separator(geturl(result)))
        ELSE result

\* The parts of a scheme between its "+" (each part of the schemes here is
\* one word).
SchemeParts(s) == SelectSeq(s, LAMBDA piece : piece # "+")

\* transport_protocol_for_url splitting at the first "+".
transport_protocol_for_url_first_plus(sch) ==
    LET sch1 == IF sch = <<>> THEN <<"tcp">> ELSE sch
    IN  IF Len(sch1) > 1
        THEN <<<<sch1[1]>>, sch1[2]>>
        ELSE IF sch1 = <<"tcp">> THEN <<<<"tcp">>, "tcp">>
        ELSE <<sch1, "rtu">>

\* transport_protocol_for_url, on the scheme parse_url gives.
transport_protocol_for_url(sch) ==
    LET sch1 == IF sch = <<>> THEN <<"tcp">> ELSE sch
    IN  IF Len(sch1) > 1
        THEN <<SubSeq(sch1, 1, Len(sch1) - 1), sch1[Len(sch1)]>>
        ELSE IF sch1 = <<"tcp">> THEN <<<<"tcp">>, "tcp">>
        ELSE <<sch1, "rtu">>

\* modbus_for_url: the class of the protocol object ("ValueError" when the
\* protocol name is unknown).
modbus_for_url(sch) ==
    LET protocol_name == transport_protocol_for_url(sch)[2]
    IN  IF protocol_name = "tcp" THEN "TCPProtocol"
        ELSE IF protocol_name = "rtu" THEN "RTUProtocol"
        ELSE "ValueError"

\* read_request_frame and read_response_frame of a protocol class.
read_request_frame(protocol, s) ==
    IF protocol = "TCPProtocol" THEN read_frame(s) ELSE rtu_read_request_frame(s)

read_response_frame(protocol, s) ==
    IF protocol = "TCPProtocol" THEN read_frame(s) ELSE rtu_read_response_frame(s)

\* Bridge.protocol, over the upstream transport.
Bridge_protocol == modbus_for_url(scheme)

\* handle_client: "protocol = type(self.protocol)(transport)", over the
\* client's transport.
Client_protocol == Bridge_protocol

\* The RTU frames of the tests, their device's replies, and two more
\* requests: write multiple registers (1 register at address 1) and read
\* exception status, whose PDU is the function code alone.
REQ_RTU == <<1, 3, 0, 1, 0, 4, 21, 201>>
REP_RTU == <<1, 3, 8, 0, 1, 0, 2, 0, 3, 0, 4, 13, 20>>
REQ2_RTU == <<1, 3, 0, 2, 0, 3, 21, 201>>
REP2_RTU == <<1, 3, 6, 0, 2, 0, 3, 0, 4, 169, 118>>
WRITE_REGISTERS_RTU == <<1, WRITE_MULTIPLE_REGISTERS, 0, 1, 0, 1, 2, 0, 5, 103, 130>>
EXCEPTION_STATUS_RTU == <<1, READ_EXCEPTION_STATUS, 65, 226>>

MbapRequests == {REQ_TCP, REQ2_TCP}
RtuRequests == {REQ_RTU, REQ2_RTU, WRITE_REGISTERS_RTU, EXCEPTION_STATUS_RTU}

\* The sequences of 1 to MaxFrames frames of a set.
Streams(frames) == UNION {[1..n -> frames] : n \in 1..MaxFrames}

\* The bytes of a sequence of frames.
RECURSIVE Concat(_)
Concat(frames) ==
    IF frames = <<>> THEN <<>>
    ELSE Head(frames) \o Concat(Tail(frames))

\* The schemes of the urls of the tests.
Schemes ==
    {<<"tcp">>, <<"tcp", "rtu">>, <<"serial">>, <<"rfc2217">>,
     <<"serial", "tcp">>, <<"serial", "tcp", "rtu">>}

\* The urls of the tests.
TestUrls ==
    {<<"host", ":", "502">>,
     <<"tcp", ":", "/", "/", "host", ":", "502">>,
     <<"tcp", ":", "/", "/", ":", "502">>,
     <<":", "502">>,
     <<"tcp", "+", "rtu", ":", "/", "/", "host", ":", "502">>,
     <<"tcp", "+", "rtu", ":", "/", "/", ":", "502">>,
     <<"serial", ":", "/", "/", "/", "dev", "/", "ttyS0">>,
     <<"rfc2217", ":", "/", "/", "host", ":", "502">>,
     <<"serial", "+", "tcp", ":", "/", "/", "/", "dev", "/", "ttyS0">>,
     <<"serial", "+", "tcp", "+", "rtu", ":", "/", "/", "/", "dev", "/", "ttyS0">>}

\* The serial device of the tests: its read_request and its reply (<<>>:
\* it raises ValueError and answers no more).
RtuDeviceReply(s) ==
    LET r == IF Len(s) < 7 THEN NoFrame
             ELSE IF s[2] \in REQ_STATIC THEN FrameOf(s, 7 + 1)
             ELSE IF s[2] \in REQ_DYNAMIC THEN FrameOf(s, 7 + s[7] + 2)
             ELSE NoFrame
    IN  IF r.ok /\ r.frame = REQ_RTU THEN REP_RTU
        ELSE IF r.ok /\ r.frame = REQ2_RTU THEN REP2_RTU
        ELSE <<>>

\* A bridge for each scheme, started, the upstream not connected, with one
\* client that has connected and sent a stream of request frames, MBAP or RTU.
ProtocolInit ==
    /\ scheme \in Schemes
    /\ url \in {u \in TestUrls : SchemeParts(parse_url(u).scheme) = scheme}
    /\ url_parsed = <<>>
    /\ transport_protocol = <<>>
    /\ serving_forever = FALSE
    /\ timeout = 1
    /\ wrote = <<>>
    /\ received = <<>>
    /\ run_pc = "none"
    /\ ready = "none"
    /\ stack = <<>>
    /\ bridges = <<>>
    /\ results = <<>>
    /\ old = <<>>
    /\ new = <<>>
    /\ connection_time = 0
    /\ server = "serving"
    /\ link = "none"
    /\ upEof = FALSE
    /\ devIn = <<>>
    /\ upBuf = <<>>
    /\ deviceUp = TRUE
    /\ locked = FALSE
    /\ waiters = <<>>
    /\ woken = FALSE
    /\ pc = [c \in Clients |-> IF c = 1 THEN "read" ELSE "none"]
    /\ attempt = [c \in Clients |-> 0]
    /\ request_frame = [c \in Clients |-> <<>>]
    /\ cst = [c \in Clients |-> IF c = 1 THEN "open" ELSE "idle"]
    /\ \E stream \in Streams(MbapRequests) \cup Streams(RtuRequests) :
         /\ sent = [c \in Clients |-> IF c = 1 THEN stream ELSE <<>>]
         /\ cliIn = [c \in Clients |-> IF c = 1 THEN Concat(stream) ELSE <<>>]
    /\ written = [c \in Clients |-> <<>>]
    /\ session_end = [c \in Clients |-> "no"]
    /\ nstops = 0
    /\ raised = "none"
    /\ events = 0

\* handle_client_message reads a request frame with the client's protocol
\* object and calls write_read_response_frame.
ProtocolRead(c) ==
    /\ pc[c] = "read"
    /\ read_request_frame(Client_protocol, cliIn[c]).ok
    /\ request_frame' = [request_frame EXCEPT ![c] =
                            read_request_frame(Client_protocol, cliIn[c]).frame]
    /\ cliIn' = [cliIn EXCEPT ![c] = read_request_frame(Client_protocol, cliIn[c]).rest]
    /\ IF Lock_free
       THEN /\ locked' = TRUE
            /\ pc' = [pc EXCEPT ![c] = "attempt"]
            /\ UNCHANGED <<waiters, woken>>
       ELSE /\ waiters' = Append(waiters, c)
            /\ pc' = [pc EXCEPT ![c] = "lock_wait"]
            /\ UNCHANGED <<locked, woken>>
    /\ UNCHANGED <<upstreamVars, apiVars, configVars, deviceUp, attempt, cst,
                   sent, written, session_end, events>>

\* The client's stream ended before a whole frame of the client's protocol.
ProtocolEOF(c) ==
    /\ pc[c] = "read"
    /\ cst[c] = "closed"
    /\ ~read_request_frame(Client_protocol, cliIn[c]).ok
    /\ pc' = [pc EXCEPT ![c] = "done"]
    /\ session_end' = [session_end EXCEPT ![c] = "client_read"]
    /\ UNCHANGED <<upstreamVars, lockVars, apiVars, configVars, clientVars,
                   deviceUp, attempt, request_frame, written, events>>

\* The device of the tests for the upstream protocol reads a request and
\* writes its reply.
ProtocolDeviceAnswer ==
    /\ link = "open"
    /\ ~upEof
    /\ IF Bridge_protocol = "TCPProtocol"
       THEN /\ read_frame(devIn).ok
            /\ DeviceReply(read_frame(devIn).frame) # <<>>
            /\ devIn' = read_frame(devIn).rest
            /\ upBuf' = upBuf \o DeviceReply(read_frame(devIn).frame)
       ELSE /\ RtuDeviceReply(devIn) # <<>>
            /\ devIn' = rtu_read_request_frame(devIn).rest
            /\ upBuf' = upBuf \o RtuDeviceReply(devIn)
    /\ UNCHANGED <<link, upEof, lockVars, apiVars, configVars, clientVars,
                   deviceUp, pc, attempt, request_frame, written, session_end, events>>

\* The TCP device of the tests reads a frame it does not know: ValueError,
\* and its connection ends.
ProtocolDeviceReject ==
    /\ link = "open"
    /\ ~upEof
    /\ Bridge_protocol = "TCPProtocol"
    /\ read_frame(devIn).ok
    /\ DeviceReply(read_frame(devIn).frame) = <<>>
    /\ upEof' = TRUE
    /\ devIn' = <<>>
    /\ UNCHANGED <<link, upBuf, lockVars, apiVars, configVars, clientVars,
                   deviceUp, pc, attempt, request_frame, written, session_end, events>>

\* The response frame is read with the upstream protocol, the lock is
\* released and the frame is written to the client.
ProtocolReadResponse(c) ==
    /\ pc[c] = "reading"
    /\ link = "open"
    /\ read_response_frame(Bridge_protocol, upBuf).ok
    /\ upBuf' = read_response_frame(Bridge_protocol, upBuf).rest
    /\ Lock_release
    /\ attempt' = [attempt EXCEPT ![c] = 0]
    /\ request_frame' = [request_frame EXCEPT ![c] = <<>>]
    /\ \E delivered \in IF cst[c] = "closed" THEN {TRUE, FALSE} ELSE {TRUE} :
         IF delivered
         THEN /\ written' = [written EXCEPT ![c] =
                                Append(@, read_response_frame(Bridge_protocol, upBuf).frame)]
              /\ pc' = [pc EXCEPT ![c] = "read"]
              /\ UNCHANGED session_end
         ELSE /\ pc' = [pc EXCEPT ![c] = "done"]
              /\ session_end' = [session_end EXCEPT ![c] = "client_write"]
              /\ UNCHANGED written
    /\ UNCHANGED <<link, upEof, devIn, apiVars, configVars, clientVars,
                   deviceUp, events>>

ProtocolNext ==
    \/ \E c \in Clients : ClientClose(c)
    \/ \E c \in Clients : ProtocolRead(c)
    \/ \E c \in Clients : ProtocolEOF(c)
    \/ \E c \in Clients : BeginAttempt(c)
    \/ \E c \in Clients : ConnectOk(c)
    \/ ProtocolDeviceAnswer
    \/ ProtocolDeviceReject
    \/ \E c \in Clients : ProtocolReadResponse(c)
    \/ \E c \in Clients : ReadFail(c)

ProtocolSpec == ProtocolInit /\ [][ProtocolNext]_vars

\* The task of client c reads a request frame in this step.
ReadsRequest(c) == pc[c] = "read" /\ pc'[c] \in {"attempt", "lock_wait"}

\* The RTU frame for an MBAP request frame of the tests: the unit and the
\* PDU, followed by the CRC.
MbapToRtu(frame) ==
    IF frame = REQ_TCP THEN REQ_RTU
    ELSE IF frame = REQ2_TCP THEN REQ2_RTU
    ELSE <<>>

\* C19: for every scheme the requests of a client that sends MBAP frames
\* are read as MBAP frames, and with an RTU upstream what is written to the
\* device is the RTU frame of the request and what is written to the client
\* is the MBAP frame of the reply.
C19_ClientSideIsMbap ==
    [][\A c \in Clients :
          (\A k \in 1..Len(sent[c]) : sent[c][k] \in MbapRequests) =>
              /\ ReadsRequest(c) =>
                     /\ read_frame(cliIn[c]).ok
                     /\ request_frame'[c] = read_frame(cliIn[c]).frame
              /\ (Bridge_protocol = "RTUProtocol" /\ InExchange(c)
                     /\ Len(devIn') > Len(devIn)) =>
                     devIn' = devIn \o MbapToRtu(request_frame[c])
              /\ written'[c] # written[c] =>
                     written'[c][Len(written'[c])] \in {REP_TCP, REP2_TCP}]_vars

\* The client of a session sends frames of the framing its session reads.
SameFraming(c) ==
    \/ /\ Client_protocol = "TCPProtocol"
       /\ \A k \in 1..Len(sent[c]) : sent[c][k] \in MbapRequests
    \/ /\ Client_protocol = "RTUProtocol"
       /\ \A k \in 1..Len(sent[c]) : sent[c][k] \in RtuRequests

\* C20: for both framers and every function code a frame read takes from
\* the stream exactly the next ADU: the request read is the k-th frame the
\* client sent and the bytes taken are those of its first k frames; the
\* response read is one reply of the device and the rest stays.
C20_FramerTotality ==
    [][\A c \in Clients :
          SameFraming(c) =>
              /\ ReadsRequest(c) =>
                     \E k \in 1..Len(sent[c]) :
                         /\ request_frame'[c] = sent[c][k]
                         /\ Consumed(c, k)'
              /\ written'[c] # written[c] =>
                     /\ written'[c][Len(written'[c])] \in
                            {REP_TCP, REP2_TCP, REP_RTU, REP2_RTU}
                     /\ upBuf = written'[c][Len(written'[c])] \o upBuf']_vars

\* ---------------------------------------------------------------------
\* The url of a configuration: transport_protocol_for_url parses it and
\* returns the names of the transport and of the protocol.
SchemePrefixes ==
    {<<>>,
     <<":", "/", "/">>,
     <<"tcp", ":", "/", "/">>,
     <<"tcp", "+", "rtu", ":", "/", "/">>,
     <<"serial", ":", "/", "/">>,
     <<"rfc2217", ":", "/", "/">>,
     <<"serial", "+", "tcp", ":", "/", "/">>,
     <<"serial", "+", "tcp", "+", "rtu", ":", "/", "/">>}
Netlocs == {<<>>, <<"host">>, <<"host", ":", "502">>, <<":", "502">>}
Paths == {<<>>, <<"/", "dev", "/", "ttyS0">>}
Addresses == {n \o q : n \in Netlocs, q \in Paths} \ {<<>>}
Urls == {p \o a : p \in SchemePrefixes, a \in Addresses}

UrlInit ==
    /\ url \in Urls
    /\ url_parsed = <<>>
    /\ transport_protocol = <<>>
    /\ serving_forever = FALSE
    /\ timeout = 1
    /\ wrote = <<>>
    /\ received = <<>>
    /\ run_pc = "none"
    /\ ready = "none"
    /\ stack = <<>>
    /\ bridges = <<>>
    /\ results = <<>>
    /\ old = <<>>
    /\ new = <<>>
    /\ scheme = <<>>
    /\ connection_time = 0
    /\ server = "none"
    /\ link = "none"
    /\ upEof = FALSE
    /\ devIn = <<>>
    /\ upBuf = <<>>
    /\ deviceUp = TRUE
    /\ locked = FALSE
    /\ waiters = <<>>
    /\ woken = FALSE
    /\ pc = [c \in Clients |-> "none"]
    /\ attempt = [c \in Clients |-> 0]
    /\ request_frame = [c \in Clients |-> <<>>]
    /\ cst = [c \in Clients |-> "idle"]
    /\ cliIn = [c \in Clients |-> <<>>]
    /\ sent = [c \in Clients |-> <<>>]
    /\ written = [c \in Clients |-> <<>>]
    /\ session_end = [c \in Clients |-> "no"]
    /\ nstops = 0
    /\ raised = "none"
    /\ events = 0

\* "url_parsed = parse_url(url)" and "scheme = url_parsed.scheme".
ParseUrl ==
    /\ url_parsed = <<>>
    /\ url_parsed' = parse_url(url)
    /\ scheme' = SchemeParts(parse_url(url).scheme)
    /\ UNCHANGED <<upstreamVars, lockVars, apiVars, clientVars, auxVars, connection_time,
                   url, transport_protocol, serving_forever, deviceUp, pc, attempt,
                   request_frame, written, session_end, events>>

\* The rest of transport_protocol_for_url, to its return.
TransportProtocolForUrl ==
    /\ url_parsed # <<>>
    /\ transport_protocol = <<>>
    /\ transport_protocol' = transport_protocol_for_url(scheme)
    /\ UNCHANGED <<upstreamVars, lockVars, apiVars, clientVars, auxVars, connection_time,
                   url, url_parsed, scheme, serving_forever, deviceUp, pc, attempt,
                   request_frame, written, session_end, events>>

UrlNext == ParseUrl \/ TransportProtocolForUrl

UrlSpec == UrlInit /\ [][UrlNext]_vars

\* The url starts with the pieces p.
StartsWith(u, p) == Len(u) >= Len(p) /\ SubSeq(u, 1, Len(p)) = p

\* C21: what transport_protocol_for_url returns for each scheme: tcp and a
\* url without scheme give (tcp, tcp), tcp+rtu (tcp, rtu), serial (serial,
\* rtu), rfc2217 (rfc2217, rtu), serial+tcp (serial, tcp) and
\* serial+tcp+rtu (serial+tcp, rtu).
C21_TransportProtocolForUrl ==
    transport_protocol # <<>> =>
        /\ ~HasSchemeSeparator(url) =>
               transport_protocol = <<<<"tcp">>, "tcp">>
        /\ StartsWith(url, <<"tcp", ":", "/", "/">>) =>
               transport_protocol = <<<<"tcp">>, "tcp">>
        /\ StartsWith(url, <<"tcp", "+", "rtu", ":", "/", "/">>) =>
               transport_protocol = <<<<"tcp">>, "rtu">>
        /\ StartsWith(url, <<"serial", ":", "/", "/">>) =>
               transport_protocol = <<<<"serial">>, "rtu">>
        /\ StartsWith(url, <<"rfc2217", ":", "/", "/">>) =>
               transport_protocol = <<<<"rfc2217">>, "rtu">>
        /\ StartsWith(url, <<"serial", "+", "tcp", ":", "/", "/">>) =>
               transport_protocol = <<<<"serial">>, "tcp">>
        /\ StartsWith(url, <<"serial", "+", "tcp", "+", "rtu", ":", "/", "/">>) =>
               transport_protocol = <<<<"serial", "tcp">>, "rtu">>

C21_Witness ==
    /\ url = <<"serial", "+", "tcp", "+", "rtu", ":", "/", "/", "/", "dev", "/", "ttyS0">>
    /\ transport_protocol = <<<<"serial", "tcp">>, "rtu">>

\* The url with "tcp://" before it when it has no "://".
WithScheme(u) == IF HasSchemeSeparator(u) THEN u ELSE <<"tcp", ":", "/", "/">> \o u

\* The url with the host "0" written after its "://".
WithHost0(u) ==
    LET k == CHOOSE i \in 1..(Len(u) - 2) :
                 /\ u[i] = ":" /\ u[i + 1] = "/" /\ u[i + 2] = "/"
                 /\ \A j \in 1..(i - 1) : ~(u[j] = ":" /\ u[j + 1] = "/" /\ u[j + 2] = "/")
    IN  SubSeq(u, 1, k + 2) \o <<"0">> \o Drop(u, k + 2)

\* C22 as stated: parse_url gives the parse of the url with "tcp://"
\* before it when it has no "://", and with host "0" whenever its host is
\* empty.
C22_ParseUrl_Original ==
    url_parsed # <<>> =>
        IF hostname(urlparse(WithScheme(url))) = <<>>
        THEN url_parsed = urlparse(WithHost0(WithScheme(url)))
        ELSE url_parsed = urlparse(WithScheme(url))

\* C22, amended: for a url with a scheme, or with none and no "://",
\* parse_url gives the parse of the url with "tcp://" before it when it has
\* no "://", and with host "0" when its host is empty and a port follows;
\* a url with nothing between "//" and the path (a device path, or nothing
\* at all) is returned as parsed, with no host.
C22_ParseUrl ==
    (url_parsed # <<>> /\ urlparse(WithScheme(url)).scheme # <<>>) =>
        LET result == urlparse(WithScheme(url))
        IN  IF hostname(result) = <<>> /\ result.netloc # <<>>
            THEN /\ url_parsed = urlparse(WithHost0(WithScheme(url)))
                 /\ hostname(url_parsed) = <<"0">>
                 /\ port(url_parsed) = port(result)
            ELSE /\ url_parsed = result
                 /\ result.netloc = <<>> => hostname(url_parsed) = <<>>

C22_Witness ==
    /\ url = <<":", "502">>
    /\ url_parsed = urlparse(<<"tcp", ":", "/", "/", "0", ":", "502">>)
    /\ hostname(url_parsed) = <<"0">>
    /\ port(url_parsed) = <<"502">>

\* ---------------------------------------------------------------------
\* C23: the upstream transport is closed only by the task that holds the
\* lock: while a task is inside an exchange, a step that closes the open
\* upstream link is a step of that task.
C23_UpstreamUnderLock ==
    [][((\E c \in Clients : InExchange(c)) /\ link = "open" /\ link' = "none") =>
          \E c \in Clients : InExchange(c) /\ pc'[c] # pc[c]]_vars

\* ---------------------------------------------------------------------
\* The bridge with a device that stays reachable and answers late: the only
\* failure of an exchange is the timeout of the wait for the response.
TimeoutNext ==
    \/ Start
    \/ \E c \in Clients : ClientConnect(c)
    \/ \E c \in Clients : ClientSend(c)
    \/ \E c \in Clients : ClientClose(c)
    \/ DeviceAnswer
    \/ \E c \in Clients : HandleClientRead(c)
    \/ \E c \in Clients : HandleClientEOF(c)
    \/ \E c \in Clients : LockResume(c)
    \/ \E c \in Clients : BeginAttempt(c)
    \/ \E c \in Clients : ConnectOk(c)
    \/ \E c \in Clients : DelayDone(c)
    \/ \E c \in Clients : ReadResponse(c)
    \/ \E c \in Clients : ExchangeTimeout(c)

TimeoutSpec == Init /\ [][TimeoutNext]_vars

\* The attempt of client c, its request written, ends without a response
\* in this step.
TimesOut(c) ==
    /\ pc[c] = "reading"
    /\ \/ pc'[c] = "attempt"
       \/ pc'[c] = "done" /\ session_end'[c] = "exchange"

\* C24: a timeout of an attempt whose request was written closes the
\* upstream link, with what was in transit, in the step that leaves the
\* attempt, so before the lock is released and before the next write; and
\* a frame written to a client is the reply to the request of the exchange
\* that read it, never the late reply to a request that timed out.
C24_TimeoutClosesLink ==
    [][\A c \in Clients :
          /\ TimesOut(c) =>
                 /\ link' = "none"
                 /\ devIn' = <<>>
                 /\ upBuf' = <<>>
                 /\ pc'[c] = "attempt" => locked'
          /\ (InExchange(c) /\ Len(devIn') > Len(devIn)) =>
                 devIn = <<>> /\ upBuf = <<>>
          /\ written'[c] # written[c] =>
                 /\ upBuf' = <<>>
                 /\ written'[c][Len(written'[c])] = DeviceReply(request_frame[c])]_vars

\* The first attempt of the only client has timed out, its retry has
\* connected again, written the request and been answered.
C24_Witness ==
    \E c \in Clients :
        /\ events = 1
        /\ \A d \in Clients \ {c} : pc[d] = "none"
        /\ Len(written[c]) = 1
        /\ written[c][1] = DeviceReply(sent[c][1])

\* ---------------------------------------------------------------------
\* The state of the upstream link: Connecting while a task is in
\* Bridge.open (the connect and the delay after it), else Closed when the
\* transport holds no writer and Open when it holds one. Draining, the
\* time TCP.close takes, lies inside the steps that close.
LinkState ==
    IF \E c \in Clients : pc[c] \in {"connecting", "delay"} THEN "Connecting"
    ELSE IF link = "none" THEN "Closed"
    ELSE "Open"

\* The steps of an exchange that change the state of the link: it starts
\* to connect, with nothing usable open; the connect and the delay are
\* over; the connect fails; an attempt whose request was written fails.
ExchangeTransition ==
    \E c \in Clients :
        \/ /\ LinkState \in {"Closed", "Open"}
           /\ ~Bridge_is_open
           /\ pc[c] = "attempt" /\ pc'[c] = "connecting"
           /\ LinkState' = "Connecting"
        \/ /\ LinkState = "Connecting"
           /\ pc[c] \in {"connecting", "delay"} /\ pc'[c] = "reading"
           /\ link' = "open"
           /\ LinkState' = "Open"
        \/ /\ LinkState = "Connecting"
           /\ pc[c] \in {"connecting", "delay"} /\ pc'[c] \in {"attempt", "done"}
           /\ LinkState' = "Closed"
        \/ /\ LinkState = "Open"
           /\ TimesOut(c)
           /\ LinkState' = "Closed"

\* A connect starts on a transport whose old connection has been closed.
ConnectsOnClosedLink ==
    \A c \in Clients :
        (pc[c] # "connecting" /\ pc'[c] = "connecting") =>
            link' = "none" /\ devIn' = <<>> /\ upBuf' = <<>>

\* C25 as stated: the state of the link is Closed at first and changes
\* only by the steps of an exchange, and no connection is opened over a
\* link that was not closed.
C25_LinkStateMachine_Original ==
    /\ LinkState = "Closed"
    /\ [][/\ LinkState' # LinkState => ExchangeTransition
          /\ ConnectsOnClosedLink]_vars

\* C25, amended: the state of the link is Closed at first and changes only by the steps of an
\* exchange or, from Open to Closed, by Bridge.close() and Bridge.stop(),
\* which close the link whatever the exchanges do; no connection is opened
\* over a link that was not closed.
C25_LinkStateMachine ==
    /\ LinkState = "Closed"
    /\ [][/\ LinkState' # LinkState =>
                 \/ ExchangeTransition
                 \/ /\ LinkState = "Open" /\ LinkState' = "Closed"
                    /\ events' = events + 1
                    /\ pc' = pc
                    /\ deviceUp' = deviceUp
          /\ ConnectsOnClosedLink]_vars

\* A client that was answered over an open link connects again: the link
\* has been closed since.
C25_Witness ==
    \E c \in Clients :
        /\ pc[c] = "connecting"
        /\ Len(written[c]) = 1
        /\ LinkState = "Connecting"
        /\ link = "none"

\* ---------------------------------------------------------------------
\* The listener. Bridge.serve_forever(): start() if there is no server,
\* then "async with self.server" around server.serve_forever(); a closed
\* server, or one that is served already, raises RuntimeError.
ServeForeverBegin ==
    /\ ~serving_forever
    /\ server \in {"none", "serving"}
    /\ server' = "serving"
    /\ serving_forever' = TRUE
    /\ UNCHANGED <<upstreamVars, lockVars, clientVars, auxVars, connection_time, scheme,
                   url, url_parsed, transport_protocol, deviceUp, nstops, raised,
                   pc, attempt, request_frame, written, session_end, events>>

\* The task in serve_forever() is cancelled: leaving "async with
\* self.server" closes the server; the upstream is not touched.
ServeForeverCancelled ==
    /\ serving_forever
    /\ serving_forever' = FALSE
    /\ server' = "closed"
    /\ UNCHANGED <<upstreamVars, lockVars, clientVars, auxVars, connection_time, scheme,
                   url, url_parsed, transport_protocol, deviceUp, nstops, raised,
                   pc, attempt, request_frame, written, session_end, events>>

\* Bridge.stop() of a bridge that may be in serve_forever():
\* server.close() ends that call as well.
StopServing ==
    /\ events < MaxEvents
    /\ events' = events + 1
    /\ server' = IF server = "none" THEN "none" ELSE "closed"
    /\ serving_forever' = FALSE
    /\ raised' = Bridge_stop_raises
    /\ Bridge_close
    /\ nstops' = nstops + 1
    /\ UNCHANGED <<lockVars, clientVars, auxVars, connection_time, scheme, url,
                   url_parsed, transport_protocol, deviceUp, pc, attempt,
                   request_frame, written, session_end>>

\* The bridge with a device that stays reachable: the only disruptions
\* are the calls of close() and stop() and the end of serve_forever().
ListenerNext ==
    \/ Start
    \/ ServeForeverBegin
    \/ ServeForeverCancelled
    \/ StopServing
    \/ Close
    \/ \E c \in Clients : ClientConnect(c)
    \/ \E c \in Clients : ClientSend(c)
    \/ \E c \in Clients : ClientClose(c)
    \/ DeviceAnswer
    \/ \E c \in Clients : HandleClientRead(c)
    \/ \E c \in Clients : HandleClientEOF(c)
    \/ \E c \in Clients : LockResume(c)
    \/ \E c \in Clients : BeginAttempt(c)
    \/ \E c \in Clients : ConnectOk(c)
    \/ \E c \in Clients : DelayDone(c)
    \/ \E c \in Clients : ReadResponse(c)
    \/ \E c \in Clients : ReadFail(c)

ListenerSpec == Init /\ [][ListenerNext]_vars

\* The listener stops accepting in this step.
ListenerCloses == server = "serving" /\ server' # "serving"

\* C26 as stated: only a call of stop() closes the listener.
C26_ListenerClosedOnlyByStop_Original ==
    [][ListenerCloses => nstops' = nstops + 1]_vars

\* C26, amended: the listener is closed only by a call of stop() or by the
\* end of a call of serve_forever(); close(), a failed attempt and the end
\* of a client session leave it as it is, and after a close() during an
\* exchange the retry connects the upstream again.
C26_ListenerClosedOnlyByStop ==
    [][/\ ListenerCloses =>
              \/ nstops' = nstops + 1
              \/ serving_forever /\ ~serving_forever'
       /\ (nstops' = nstops /\ serving_forever' = serving_forever) =>
              server' = server \/ (server \in {"none", "closed"} /\ server' = "serving")
       /\ \A c \in Clients :
              (pc[c] = "reading" /\ link = "none" /\ pc'[c] = "attempt") =>
                  ~Bridge_is_open' /\ server' = server]_vars

\* After a close() during the exchange of a client, with the listener
\* still accepting, the retry has connected the upstream again.
C26_Witness ==
    \E c \in Clients :
        /\ server = "serving"
        /\ nstops = 0
        /\ events = 1
        /\ attempt[c] = 1
        /\ pc[c] = "reading"
        /\ link = "open"

\* ---------------------------------------------------------------------
\* C27: a session that ends before a whole request frame was read has
\* ended on its client's side with nothing done upstream: the link, the
\* bytes in transit and the lock are as before and no request is held;
\* only a whole frame the client sent is taken to the lock, and only the
\* whole request of the task inside the lock is written to the device.
C27_NoPartialFrameUpstream ==
    [][/\ \A c \in Clients :
              /\ (pc[c] = "read" /\ pc'[c] = "done") =>
                     /\ ~read_frame(cliIn[c]).ok
                     /\ session_end'[c] = "client_read"
                     /\ upstreamVars' = upstreamVars
                     /\ lockVars' = lockVars
                     /\ request_frame'[c] = <<>>
              /\ (pc[c] = "read" /\ pc'[c] \in {"attempt", "lock_wait"}) =>
                     \E k \in 1..Len(sent[c]) : request_frame'[c] = sent[c][k]
       /\ Len(devIn') > Len(devIn) =>
              \E h \in Holders :
                  /\ request_frame[h] \in RequestFrames
                  /\ devIn' = devIn \o request_frame[h]]_vars

\* A session has ended on an unfinished frame, its first, and the upstream
\* was never connected.
C27_Witness ==
    \E c \in Clients :
        /\ session_end[c] = "client_read"
        /\ sent[c] = <<>>
        /\ cliIn[c] # <<>>
        /\ link = "none"
        /\ ~locked
        /\ devIn = <<>>

\* ---------------------------------------------------------------------
\* The framers alone, called again and again on a stream of frames.

\* A well-formed MBAP frame with a body of n bytes.
MbapFrame(n) == <<0, 1, 0, 0, n \div 256, n % 256>> \o [i \in 1..n |-> i % 256]

\* An RTU request for a function code: address, function, two 16-bit
\* fields, for the dynamic functions the byte count n and n bytes, and two
\* bytes in the place of the CRC (no framer checks it).
RtuRequest(func, n) ==
    <<1, func, 0, 1, 0, 1>>
        \o (IF func \in REQ_DYNAMIC THEN <<n>> \o [i \in 1..n |-> 0] ELSE <<>>)
        \o <<170, 85>>

\* An RTU response for a function code: the echo of the request for the
\* write functions, the byte count n and n bytes for the read functions,
\* one exception code for an error.
RtuResponse(func, n) ==
    <<1, func>>
        \o (IF func \in RESP_STATIC THEN <<0, 1, 0, 1>>
            ELSE IF func \in RESP_DYNAMIC THEN <<n>> \o [i \in 1..n |-> 0]
            ELSE <<2>>)
        \o <<170, 85>>

\* The function codes and byte counts of the frames of the streams: the
\* general functions, read exception status and diagnostics, and, in
\* responses, two error codes.
DIAGNOSTICS == 8
ByteCounts == {1, 2}
FramerRequests(protocol) ==
    IF protocol = "TCPProtocol"
    THEN RequestFrames \cup {MbapFrame(0), MbapFrame(258)}
    ELSE {RtuRequest(func, n) : func \in GENERAL_FUNCS \cup {DIAGNOSTICS}, n \in ByteCounts}
             \cup {EXCEPTION_STATUS_RTU}

FramerResponses(protocol) ==
    IF protocol = "TCPProtocol"
    THEN {REP_TCP, REP2_TCP, MbapFrame(0), MbapFrame(258)}
    ELSE {RtuResponse(func, n) :
              func \in GENERAL_FUNCS \cup {READ_EXCEPTION_STATUS, 128 + READ_HOLDING_REGISTERS,
                                           128 + WRITE_MULTIPLE_REGISTERS},
              n \in ByteCounts}
             \cup {RtuRequest(DIAGNOSTICS, 1)}

\* A bridge with the TCP or the RTU protocol and one client: either the
\* client has sent a stream of requests, or the client's exchange waits
\* while the device writes a stream of responses.
FramerInit ==
    /\ scheme \in {<<"tcp">>, <<"serial">>}
    /\ url = <<"host", ":", "502">>
    /\ url_parsed = <<>>
    /\ transport_protocol = <<>>
    /\ serving_forever = FALSE
    /\ timeout = 1
    /\ wrote = <<>>
    /\ received = <<>>
    /\ run_pc = "none"
    /\ ready = "none"
    /\ stack = <<>>
    /\ bridges = <<>>
    /\ results = <<>>
    /\ old = <<>>
    /\ new = <<>>
    /\ connection_time = 0
    /\ server = "serving"
    /\ upEof = FALSE
    /\ devIn = <<>>
    /\ deviceUp = TRUE
    /\ waiters = <<>>
    /\ woken = FALSE
    /\ attempt = [c \in Clients |-> 0]
    /\ cst = [c \in Clients |-> IF c = 1 THEN "open" ELSE "idle"]
    /\ written = [c \in Clients |-> <<>>]
    /\ session_end = [c \in Clients |-> "no"]
    /\ nstops = 0
    /\ raised = "none"
    /\ events = 0
    /\ \/ /\ \E stream \in Streams(FramerRequests(modbus_for_url(scheme))) :
               /\ sent = [c \in Clients |-> IF c = 1 THEN stream ELSE <<>>]
               /\ cliIn = [c \in Clients |-> IF c = 1 THEN Concat(stream) ELSE <<>>]
          /\ pc = [c \in Clients |-> IF c = 1 THEN "read" ELSE "none"]
          /\ request_frame = [c \in Clients |-> <<>>]
          /\ locked = FALSE
          /\ link = "none"
          /\ upBuf = <<>>
       \/ /\ LET request == IF modbus_for_url(scheme) = "TCPProtocol"
                             THEN REQ_TCP ELSE REQ_RTU
             IN  /\ sent = [c \in Clients |-> IF c = 1 THEN <<request>> ELSE <<>>]
                 /\ request_frame = [c \in Clients |-> IF c = 1 THEN request ELSE <<>>]
          /\ cliIn = [c \in Clients |-> <<>>]
          /\ pc = [c \in Clients |-> IF c = 1 THEN "reading" ELSE "none"]
          /\ locked = TRUE
          /\ link = "open"
          /\ \E stream \in Streams(FramerResponses(modbus_for_url(scheme))) :
               upBuf = Concat(stream)

\* client.read_request_frame() returns a frame.
FramerReadRequest(c) ==
    /\ pc[c] = "read"
    /\ read_request_frame(Client_protocol, cliIn[c]).ok
    /\ request_frame' = [request_frame EXCEPT ![c] =
                            read_request_frame(Client_protocol, cliIn[c]).frame]
    /\ cliIn' = [cliIn EXCEPT ![c] = read_request_frame(Client_protocol, cliIn[c]).rest]
    /\ UNCHANGED <<upstreamVars, lockVars, apiVars, configVars, deviceUp, pc,
                   attempt, cst, sent, written, session_end, events>>

\* self.protocol.read_response_frame() returns a frame.
FramerReadResponse(c) ==
    /\ pc[c] = "reading"
    /\ link = "open"
    /\ read_response_frame(Bridge_protocol, upBuf).ok
    /\ upBuf' = read_response_frame(Bridge_protocol, upBuf).rest
    /\ written' = [written EXCEPT ![c] =
                      Append(@, read_response_frame(Bridge_protocol, upBuf).frame)]
    /\ UNCHANGED <<link, upEof, devIn, lockVars, apiVars, configVars, clientVars,
                   deviceUp, pc, attempt, request_frame, session_end, events>>

FramerNext ==
    \/ \E c \in Clients : FramerReadRequest(c)
    \/ \E c \in Clients : FramerReadResponse(c)

FramerSpec == FramerInit /\ [][FramerNext]_vars

\* A request frame is read from client c, a response frame is read for
\* client c, in this step.
RequestRead(c) == cliIn'[c] # cliIn[c]
ResponseRead(c) == written'[c] # written[c]

\* C28: the MBAP framer returns the first 6 + L bytes of the stream, L
\* being bytes 4 and 5 of the stream as a big-endian number, and leaves the
\* rest; called again and again on the frames a client sent one after the
\* other, it returns the k-th frame at the k-th call.
C28_MbapFramer ==
    [][\A c \in Clients :
          Client_protocol = "TCPProtocol" =>
              /\ RequestRead(c) =>
                     /\ request_frame'[c] =
                            SubSeq(cliIn[c], 1, 6 + 256 * cliIn[c][5] + cliIn[c][6])
                     /\ cliIn'[c] =
                            SubSeq(cliIn[c], 7 + 256 * cliIn[c][5] + cliIn[c][6], Len(cliIn[c]))
                     /\ \A k \in 1..Len(sent[c]) :
                            Consumed(c, k - 1) =>
                                request_frame'[c] = sent[c][k] /\ Consumed(c, k)'
              /\ ResponseRead(c) =>
                     /\ written'[c] =
                            Append(written[c], SubSeq(upBuf, 1, 6 + 256 * upBuf[5] + upBuf[6]))
                     /\ upBuf' = SubSeq(upBuf, 7 + 256 * upBuf[5] + upBuf[6], Len(upBuf))]_vars

\* A stream of a frame without body followed by a frame of 6 + 258 bytes
\* has been read to its end.
C28_Witness ==
    /\ Client_protocol = "TCPProtocol"
    /\ sent[1] = <<MbapFrame(0), MbapFrame(258)>>
    /\ request_frame[1] = MbapFrame(258)
    /\ cliIn[1] = <<>>

\* The length of the request frame the RTU framer takes from a stream.
RtuRequestLength(s) ==
    IF s[2] \in 1..6 THEN 8
    ELSE IF s[2] \in {15, 16} THEN 9 + s[7]
    ELSE 8

\* C29: the RTU request framer returns 8 bytes for the function codes 1 to
\* 6, 9 + byte_count bytes for 15 and 16, byte_count being the 7th byte,
\* and 8 bytes for any other code; it returns as soon as the stream holds
\* that many bytes.
C29_RtuRequestFramer ==
    [][\A c \in Clients :
          (Client_protocol = "RTUProtocol" /\ pc[c] = "read") =>
              /\ RequestRead(c) =>
                     /\ request_frame'[c] = SubSeq(cliIn[c], 1, RtuRequestLength(cliIn[c]))
                     /\ cliIn'[c] = SubSeq(cliIn[c], RtuRequestLength(cliIn[c]) + 1, Len(cliIn[c]))
              /\ (Len(cliIn[c]) >= 7 /\ Len(cliIn[c]) >= RtuRequestLength(cliIn[c])) =>
                     ENABLED FramerReadRequest(c)]_vars

\* A write multiple registers request with 2 bytes of values has been read,
\* and then a request of a function the framer does not know.
C29_Witness ==
    /\ Client_protocol = "RTUProtocol"
    /\ sent[1][1] = RtuRequest(WRITE_MULTIPLE_REGISTERS, 2)
    /\ Len(sent[1][1]) = 11
    /\ Len(sent[1]) = 2
    /\ request_frame[1] = RtuRequest(DIAGNOSTICS, 1)
    /\ cliIn[1] = <<>>

\* The length of the response frame the RTU framer takes from a stream.
RtuResponseLength(s) ==
    IF s[2] \in {5, 6, 15, 16} THEN 8
    ELSE IF s[2] \in 1..4 THEN 5 + s[3]
    ELSE IF s[2] >= 128 THEN 5
    ELSE 4

\* C30: the RTU response framer returns 8 bytes for the function codes 5,
\* 6, 15 and 16, 5 + N bytes for 1 to 4, N being the third byte, 5 bytes
\* for any other code with the bit 0x80 and 4 bytes for the remaining
\* codes; it returns as soon as the stream holds that many bytes.
C30_RtuResponseFramer ==
    [][\A c \in Clients :
          (Bridge_protocol = "RTUProtocol" /\ pc[c] = "reading") =>
              /\ ResponseRead(c) =>
                     /\ written'[c] =
                            Append(written[c], SubSeq(upBuf, 1, RtuResponseLength(upBuf)))
                     /\ upBuf' = SubSeq(upBuf, RtuResponseLength(upBuf) + 1, Len(upBuf))
              /\ (Len(upBuf) >= 3 /\ Len(upBuf) >= RtuResponseLength(upBuf)) =>
                     ENABLED FramerReadResponse(c)]_vars

\* An error response and then a read response with 2 bytes of data have
\* been read.
C30_Witness ==
    /\ Bridge_protocol = "RTUProtocol"
    /\ written[1] = <<RtuResponse(128 + READ_HOLDING_REGISTERS, 1),
                      RtuResponse(READ_HOLDING_REGISTERS, 2)>>
    /\ Len(written[1][1]) = 5
    /\ Len(written[1][2]) = 7
    /\ upBuf = <<>>

None == 0 - 1

\* The timeouts of the configurations: none, and one second.
Timeouts == {None, 1}

\* asyncio.wait_for(aw, timeout) has a timer unless timeout is None.
wait_for_has_timer(t) == t # None

\* A bridge as Init makes it, with or without a timeout.
RetryInit ==
    /\ server = "none"
    /\ link = "none"
    /\ upEof = FALSE
    /\ devIn = <<>>
    /\ upBuf = <<>>
    /\ deviceUp = TRUE
    /\ connection_time \in {0, 1}
    /\ scheme = <<"tcp">>
    /\ url = <<"host", ":", "502">>
    /\ url_parsed = <<>>
    /\ transport_protocol = <<>>
    /\ serving_forever = FALSE
    /\ timeout \in Timeouts
    /\ wrote = <<>>
    /\ received = <<>>
    /\ run_pc = "none"
    /\ ready = "none"
    /\ stack = <<>>
    /\ bridges = <<>>
    /\ results = <<>>
    /\ old = <<>>
    /\ new = <<>>
    /\ locked = FALSE
    /\ waiters = <<>>
    /\ woken = FALSE
    /\ pc = [c \in Clients |-> "none"]
    /\ attempt = [c \in Clients |-> 0]
    /\ request_frame = [c \in Clients |-> <<>>]
    /\ cst = [c \in Clients |-> "idle"]
    /\ cliIn = [c \in Clients |-> <<>>]
    /\ sent = [c \in Clients |-> <<>>]
    /\ written = [c \in Clients |-> <<>>]
    /\ session_end = [c \in Clients |-> "no"]
    /\ nstops = 0
    /\ raised = "none"
    /\ events = 0

\* What the actions below leave as it is of the configuration.
retryConfig ==
    <<connection_time, scheme, url, url_parsed, transport_protocol,
      serving_forever, timeout, runVars, versionVars>>

\* The task of client c writes the request of its exchange to the upstream.
LogWrite(c) == wrote' = Append(wrote, <<c, Len(written[c]) + 1>>)

\* BeginAttempt, the write recorded.
RetryBeginAttempt(c) ==
    /\ pc[c] = "attempt"
    /\ IF Bridge_is_open
       THEN /\ TCP_write(request_frame[c])
            /\ LogWrite(c)
            /\ pc' = [pc EXCEPT ![c] = "reading"]
       ELSE /\ TCP_close
            /\ UNCHANGED wrote
            /\ pc' = [pc EXCEPT ![c] = "connecting"]
    /\ UNCHANGED <<lockVars, apiVars, retryConfig, received, clientVars, deviceUp,
                   attempt, request_frame, written, session_end, events>>

\* ConnectOk, the write recorded.
RetryConnectOk(c) ==
    /\ pc[c] = "connecting"
    /\ deviceUp
    /\ link' = "open"
    /\ upEof' = FALSE
    /\ upBuf' = <<>>
    /\ IF connection_time > 0
       THEN /\ devIn' = <<>>
            /\ UNCHANGED wrote
            /\ pc' = [pc EXCEPT ![c] = "delay"]
       ELSE /\ devIn' = request_frame[c]
            /\ LogWrite(c)
            /\ pc' = [pc EXCEPT ![c] = "reading"]
    /\ UNCHANGED <<lockVars, apiVars, retryConfig, received, clientVars, deviceUp,
                   attempt, request_frame, written, session_end, events>>

\* DelayDone, the write recorded.
RetryDelayDone(c) ==
    /\ pc[c] = "delay"
    /\ IF link = "open"
       THEN /\ TCP_write(request_frame[c])
            /\ LogWrite(c)
            /\ pc' = [pc EXCEPT ![c] = "reading"]
            /\ UNCHANGED <<lockVars, attempt, request_frame, session_end>>
       ELSE /\ AttemptFailed(c)
            /\ UNCHANGED wrote
    /\ UNCHANGED <<apiVars, retryConfig, received, clientVars, deviceUp, written,
                   events>>

\* DeviceAnswer, the frame read recorded.
RetryDeviceAnswer ==
    /\ link = "open"
    /\ ~upEof
    /\ read_frame(devIn).ok
    /\ DeviceReply(read_frame(devIn).frame) # <<>>
    /\ devIn' = read_frame(devIn).rest
    /\ upBuf' = upBuf \o DeviceReply(read_frame(devIn).frame)
    /\ received' = Append(received, read_frame(devIn).frame)
    /\ UNCHANGED <<link, upEof, lockVars, apiVars, retryConfig, wrote, clientVars,
                   deviceUp, pc, attempt, request_frame, written, session_end, events>>

\* The timer of "wait_for(self.transport.open(), self.timeout)" goes off:
\* the device accepts no connection and refuses none.
WaitForOpenExpires(c) ==
    /\ pc[c] = "connecting"
    /\ wait_for_has_timer(timeout)
    /\ AttemptFailed(c)
    /\ UNCHANGED <<apiVars, configVars, clientVars, deviceUp, written, events>>

\* Mutant: "return await coro", without wait_for.
WaitForExchangeExpires_no_wait_for(c) ==
    /\ FALSE
    /\ UNCHANGED vars

\* The timer of "wait_for(coro, self.timeout)" goes off: the device has
\* sent no whole response.
WaitForExchangeExpires(c) ==
    /\ pc[c] = "reading"
    /\ wait_for_has_timer(timeout)
    /\ AttemptFailed(c)
    /\ UNCHANGED <<apiVars, configVars, clientVars, deviceUp, written, events>>

\* The bridge with a device that answers, stays silent or goes away, and
\* timers that go off whenever the configuration has a timeout.
RetryNext ==
    \/ Start
    \/ \E c \in Clients : ClientConnect(c)
    \/ \E c \in Clients : ClientSend(c)
    \/ \E c \in Clients : ClientClose(c)
    \/ RetryDeviceAnswer
    \/ DeviceDown
    \/ DeviceUp
    \/ \E c \in Clients : HandleClientRead(c)
    \/ \E c \in Clients : HandleClientEOF(c)
    \/ \E c \in Clients : LockResume(c)
    \/ \E c \in Clients : RetryBeginAttempt(c)
    \/ \E c \in Clients : RetryConnectOk(c)
    \/ \E c \in Clients : ConnectFail(c)
    \/ \E c \in Clients : RetryDelayDone(c)
    \/ \E c \in Clients : ReadResponse(c)
    \/ \E c \in Clients : ReadFail(c)
    \/ \E c \in Clients : WaitForOpenExpires(c)
    \/ \E c \in Clients : WaitForExchangeExpires(c)

RetrySpec == RetryInit /\ [][RetryNext]_vars

\* What the task of client c does by itself inside
\* write_read_response_frame: it resumes with the lock, runs to its next
\* await, takes a response or an error that is there, and is resumed by its
\* timers.  That the device accepts a connection or answers is not its doing.
CallStep(c) ==
    \/ LockResume(c)
    \/ RetryBeginAttempt(c)
    \/ ConnectFail(c)
    \/ RetryDelayDone(c)
    \/ ReadResponse(c)
    \/ ReadFail(c)
    \/ WaitForOpenExpires(c)
    \/ WaitForExchangeExpires(c)

\* The event loop runs every task that can run; nothing is assumed of the
\* device.
FairRetrySpec == RetrySpec /\ \A c \in Clients : WF_vars(CallStep(c))

\* The call of write_read_response_frame of client c ends in this step.
Exits(c) == InExchange(c) /\ ~InExchange(c)'

\* C32: with a timeout in the configuration every call of
\* write_read_response_frame ends, the wait for the lock included, whatever
\* the device does; a call makes at most Attempts attempts; it ends by
\* returning the response frame it read or by raising the error of its last
\* attempt; and the lock is released at either end.
C32_ExchangeTerminates ==
    /\ \A c \in Clients :
           (wait_for_has_timer(timeout) /\ (pc[c] = "lock_wait" \/ InExchange(c)))
               ~> (pc[c] \in {"read", "done"})
    /\ [][\A c \in Clients :
             /\ attempt'[c] + 1 <= Attempts
             /\ Exits(c) =>
                    /\ ~locked'
                    /\ pc'[c] \in {"read", "done"}
                    /\ \/ /\ pc[c] = "reading"
                          /\ read_frame(upBuf).ok
                          /\ upBuf = read_frame(upBuf).frame \o upBuf'
                       \/ /\ Raised(c)
                          /\ attempt[c] + 1 = Attempts]_vars

\* With a timeout and a device that has answered nothing, the second
\* attempt has timed out and the error has left the call, the lock free.
C32_Witness ==
    \E c \in Clients :
        /\ timeout # None
        /\ deviceUp
        /\ received = <<>>
        /\ Len(wrote) = Attempts
        /\ session_end[c] = "exchange"
        /\ ~locked

\* The number of times the k-th request of client c was written to the
\* upstream.
Writes(c, k) == Cardinality({i \in 1..Len(wrote) : wrote[i] = <<c, k>>})

\* C33: the request of an exchange is written to the upstream at most
\* Attempts times, and at least once when the exchange returns a response;
\* the lock is held from one attempt to the next, the writes of one request
\* follow one another with no other request between them, and every write is
\* the holder's request.
C33_WritesPerExchange ==
    /\ [](\A c \in Clients : \A k \in 1..MaxReq :
             /\ Writes(c, k) <= Attempts
             /\ k <= Len(written[c]) => Writes(c, k) >= 1)
    /\ [](\A i, j \in 1..Len(wrote) :
             (i < j /\ wrote[i] = wrote[j]) =>
                 \A h \in i..j : wrote[h] = wrote[i])
    /\ [][/\ \A c \in Clients :
                /\ Retried(c) =>
                       /\ locked /\ locked'
                       /\ Holders' = {c}
                       /\ lockVars' = lockVars
                /\ (Exits(c) /\ ~Raised(c)) => Writes(c, Len(written[c]) + 1) >= 1
          /\ wrote' # wrote =>
                \E c \in Holders :
                    /\ Holders = {c}
                    /\ request_frame[c] = CurrentRequest(c)
                    /\ wrote' = Append(wrote, <<c, Len(written[c]) + 1>>)
                    /\ devIn' = devIn \o request_frame[c]]_vars

\* The one request of the one client that sent any was read twice by the
\* device, its first attempt having failed after the write, and the client
\* has its one reply.
C33_Witness ==
    \E c \in Clients :
        /\ \A d \in Clients \ {c} : sent[d] = <<>>
        /\ sent[c] = <<RequestOf(c, 1)>>
        /\ received = <<RequestOf(c, 1), RequestOf(c, 1)>>
        /\ Writes(c, 1) = 2
        /\ written[c] = <<DeviceReply(RequestOf(c, 1))>>

\* ------------------------------------------------------------ run_bridges
\* The number of bridges of the configuration.
NumBridges == 2

Bridges == 1..NumBridges

\* The state of the one bridge of the sections above, which run_bridges
\* does not touch here.
oneBridgeVars ==
    <<upstreamVars, lockVars, clientVars, apiVars, retryVars, versionVars,
      connection_time, scheme, url, url_parsed, transport_protocol, serving_forever, deviceUp,
      pc, attempt, request_frame, written, session_end, events>>

\* create_bridges has made the bridges (Bridge.__init__: server None, the
\* upstream not connected) and run_bridges is called, with or without ready.
RunInit ==
    /\ run_pc = "enter"
    /\ ready \in {"none", "unset"}
    /\ stack = <<>>
    /\ bridges = [b \in Bridges |->
                     [server |-> "none", link |-> "none", task |-> "none",
                      session |-> "none"]]
    /\ results = <<>>
    /\ old = <<>>
    /\ new = <<>>
    /\ server = "none"
    /\ link = "none"
    /\ upEof = FALSE
    /\ devIn = <<>>
    /\ upBuf = <<>>
    /\ deviceUp = TRUE
    /\ connection_time = 0
    /\ scheme = <<"tcp">>
    /\ url = <<"host", ":", "502">>
    /\ url_parsed = <<>>
    /\ transport_protocol = <<>>
    /\ serving_forever = FALSE
    /\ timeout = 1
    /\ wrote = <<>>
    /\ received = <<>>
    /\ locked = FALSE
    /\ waiters = <<>>
    /\ woken = FALSE
    /\ pc = [c \in Clients |-> "none"]
    /\ attempt = [c \in Clients |-> 0]
    /\ request_frame = [c \in Clients |-> <<>>]
    /\ cst = [c \in Clients |-> "idle"]
    /\ cliIn = [c \in Clients |-> <<>>]
    /\ sent = [c \in Clients |-> <<>>]
    /\ written = [c \in Clients |-> <<>>]
    /\ session_end = [c \in Clients |-> "no"]
    /\ nstops = 0
    /\ raised = "none"
    /\ events = 0

\* gather(*coros) propagates the first exception of a child to run_bridges,
\* which is then unwinding its exit stack; the other children go on.
gather_raises(p) == IF p \in {"start", "serve"} THEN "unwind" ELSE p

\* The exit stack enters the context of every bridge (__aenter__ returns
\* the bridge), in the order of the list, and start_bridges makes a task of
\* every bridge.start().
EnterContexts ==
    /\ run_pc = "enter"
    /\ stack' = [i \in 1..NumBridges |-> i]
    /\ bridges' = [b \in Bridges |-> [bridges[b] EXCEPT !.task = "starting"]]
    /\ run_pc' = "start"
    /\ UNCHANGED <<ready, oneBridgeVars>>

\* Bridge.start() of bridge b: asyncio.start_server binds and listens.
BridgeStart(b) ==
    /\ run_pc \in {"start", "unwind"}
    /\ bridges[b].task = "starting"
    /\ bridges' = [bridges EXCEPT ![b].server = "serving", ![b].task = "started"]
    /\ UNCHANGED <<run_pc, ready, stack, oneBridgeVars>>

\* Bridge.start() of bridge b raises (the address is in use).
BridgeStartFails(b) ==
    /\ run_pc \in {"start", "unwind"}
    /\ bridges[b].task = "starting"
    /\ bridges' = [bridges EXCEPT ![b].task = "ended"]
    /\ run_pc' = gather_raises(run_pc)
    /\ UNCHANGED <<ready, stack, oneBridgeVars>>

\* start_bridges has returned: "ready.set(bridges)" when ready is given, and
\* a task is made of every bridge.serve_forever().
SignalReady ==
    /\ run_pc = "start"
    /\ \A b \in Bridges : bridges[b].task = "started"
    /\ ready' = IF ready = "none" THEN "none" ELSE "set"
    /\ bridges' = [b \in Bridges |-> [bridges[b] EXCEPT !.task = "pending"]]
    /\ run_pc' = "serve"
    /\ UNCHANGED <<stack, oneBridgeVars>>

\* Bridge.serve_forever() of bridge b begins; server.serve_forever() raises
\* RuntimeError on a server that was closed meanwhile.
BridgeServeForever(b) ==
    /\ run_pc \in {"serve", "unwind"}
    /\ bridges[b].task = "pending"
    /\ IF bridges[b].server = "serving"
       THEN /\ bridges' = [bridges EXCEPT ![b].task = "serving"]
            /\ UNCHANGED run_pc
       ELSE /\ bridges' = [bridges EXCEPT ![b].task = "ended"]
            /\ run_pc' = gather_raises(run_pc)
    /\ UNCHANGED <<ready, stack, oneBridgeVars>>

\* Bridge.close() on the upstream of bridge b: a connected transport is
\* closed; one that is connecting has no writer yet and is left alone.
BridgeClosed(b) ==
    IF bridges[b].link = "open" THEN "none" ELSE bridges[b].link

\* An error ends the serve_forever() of bridge b: leaving "async with
\* self.server" closes its server.
BridgeServeForeverRaises(b) ==
    /\ run_pc \in {"serve", "unwind"}
    /\ bridges[b].task = "serving"
    /\ bridges' = [bridges EXCEPT ![b].task = "ended", ![b].server = "closed"]
    /\ run_pc' = gather_raises(run_pc)
    /\ UNCHANGED <<ready, stack, oneBridgeVars>>

\* bridge.stop() called by who was handed the bridges through ready:
\* server.close() ends serve_forever() with CancelledError, then close().
BridgeStop(b) ==
    /\ ready = "set"
    /\ bridges[b].server = "serving"
    /\ bridges' = [bridges EXCEPT
                      ![b].server = "closed",
                      ![b].link = BridgeClosed(b),
                      ![b].task = IF @ = "serving" THEN "ended" ELSE @]
    /\ run_pc' = IF bridges[b].task = "serving" THEN gather_raises(run_pc) ELSE run_pc
    /\ UNCHANGED <<ready, stack, oneBridgeVars>>

\* What the cancellation of gather makes of a child.
Cancelled(r) ==
    [r EXCEPT !.task = IF @ \in {"starting", "pending", "serving"} THEN "ended" ELSE @,
              !.server = IF r.task = "serving" THEN "closed" ELSE @]

\* The task of run_bridges is cancelled while it awaits a gather: the
\* children are cancelled with it.
RunCancelled ==
    /\ run_pc \in {"start", "serve"}
    /\ bridges' = [b \in Bridges |-> Cancelled(bridges[b])]
    /\ run_pc' = "unwind"
    /\ UNCHANGED <<ready, stack, oneBridgeVars>>

\* The place in the exit stack of the last bridge entered whose upstream
\* is connected (0: there is none).
TopOpen ==
    LET open == {k \in 1..Len(stack) : bridges[stack[k]].link = "open"}
    IN  IF open = {} THEN 0 ELSE CHOOSE k \in open : \A j \in open : j <= k

\* TCP.close() after its "await self.writer.wait_closed()": reader and
\* writer are None.
Resumed(r) == [r EXCEPT !.link = IF @ = "closing" THEN "none" ELSE @]

\* The exit stack leaves the contexts, the last entered first:
\* Bridge.__aexit__ -> Bridge.close() -> TCP.close(), which returns at once
\* when there is no writer and otherwise closes it and awaits
\* writer.wait_closed(), other tasks running meanwhile.  One step goes from
\* one await to the next, or to the end of the stack, where run_bridges is
\* left.
UnwindClose ==
    /\ run_pc = "unwind"
    /\ IF TopOpen = 0
       THEN /\ stack' = <<>>
            /\ run_pc' = "exited"
            /\ bridges' = [b \in Bridges |-> Resumed(bridges[b])]
       ELSE /\ stack' = SubSeq(stack, 1, TopOpen - 1)
            /\ bridges' = [b \in Bridges |->
                              IF b = stack[TopOpen]
                              THEN [bridges[b] EXCEPT !.link = "closing"]
                              ELSE Resumed(bridges[b])]
            /\ UNCHANGED run_pc
    /\ UNCHANGED <<ready, oneBridgeVars>>

\* A client connects to bridge b, which listens from start() on:
\* handle_client runs in a task of its own.
SessionConnect(b) ==
    /\ bridges[b].server = "serving"
    /\ bridges[b].session = "none"
    /\ bridges' = [bridges EXCEPT ![b].session = "running"]
    /\ UNCHANGED <<run_pc, ready, stack, oneBridgeVars>>

\* The session of bridge b has a request and its exchange finds the
\* upstream not open: Bridge.open() starts connecting.
SessionOpen(b) ==
    /\ bridges[b].session = "running"
    /\ bridges[b].link = "none"
    /\ bridges' = [bridges EXCEPT ![b].link = "connecting"]
    /\ UNCHANGED <<run_pc, ready, stack, oneBridgeVars>>

\* asyncio.open_connection returns: the upstream of bridge b is connected.
SessionConnected(b) ==
    /\ bridges[b].session = "running"
    /\ bridges[b].link = "connecting"
    /\ bridges' = [bridges EXCEPT ![b].link = "open"]
    /\ UNCHANGED <<run_pc, ready, stack, oneBridgeVars>>

\* The client of bridge b leaves and its session ends, the upstream as it is.
SessionEnds(b) ==
    /\ bridges[b].session = "running"
    /\ bridges[b].link # "connecting"
    /\ bridges' = [bridges EXCEPT ![b].session = "done"]
    /\ UNCHANGED <<run_pc, ready, stack, oneBridgeVars>>

RunNext ==
    \/ EnterContexts
    \/ \E b \in Bridges : BridgeStart(b)
    \/ \E b \in Bridges : BridgeStartFails(b)
    \/ SignalReady
    \/ \E b \in Bridges : BridgeServeForever(b)
    \/ \E b \in Bridges : BridgeServeForeverRaises(b)
    \/ \E b \in Bridges : BridgeStop(b)
    \/ RunCancelled
    \/ UnwindClose
    \/ \E b \in Bridges : SessionConnect(b)
    \/ \E b \in Bridges : SessionOpen(b)
    \/ \E b \in Bridges : SessionConnected(b)
    \/ \E b \in Bridges : SessionEnds(b)

RunSpec == RunInit /\ [][RunNext]_vars

\* C34: ready is set in a step before which every bridge has been started
\* and listens and no serve_forever has begun, and no serve_forever begins
\* while a ready that was given is not set; and in the step that leaves
\* run_bridges, whatever ended it, the upstream of no bridge is open.
C34_RunBridges ==
    [][/\ (ready # "set" /\ ready' = "set") =>
              \A b \in Bridges :
                  /\ bridges[b].task = "started"
                  /\ bridges[b].server = "serving"
       /\ \A b \in Bridges :
              (bridges[b].task # "serving" /\ bridges'[b].task = "serving") =>
                  ready # "unset"
       /\ (run_pc # "exited" /\ run_pc' = "exited") =>
              \A b \in Bridges : bridges'[b].link # "open"]_vars

\* ------------------------------------------- version 0.5.0 and the current
\* What a connect does: it succeeds, it is refused, its wait_for times out.
ConnectResults == {"ok", "refused", "timeout"}

\* What the write and read of an attempt do: the response is read, the write
\* raises, the read raises, their wait_for times out.
ExchangeResults == {"response", "write_error", "read_error", "timeout"}

\* The upstream a call finds: not connected, connected, or connected with
\* the device's EOF read (a writer, and reader.at_eof()).
LinkResults == {"none", "open", "stale"}

\* One call of the exchange for REQ_TCP with the lock free, and the handling
\* of its result, in each version.
Called(l) ==
    [pc |-> "call", i |-> 0, link |-> l, locked |-> FALSE, result |-> "pending",
     written |-> <<>>, session |-> "open", unclosed |-> 0]

VersionInit ==
    /\ results \in [link : LinkResults,
                    connect : [0..(Attempts - 1) -> ConnectResults],
                    exchange : [0..(Attempts - 1) -> ExchangeResults],
                    client_write : {"ok", "error"}]
    /\ old = Called(results.link)
    /\ new = Called(results.link)
    /\ run_pc = "none"
    /\ ready = "none"
    /\ stack = <<>>
    /\ bridges = <<>>
    /\ server = "serving"
    /\ link = "none"
    /\ upEof = FALSE
    /\ devIn = <<>>
    /\ upBuf = <<>>
    /\ deviceUp = TRUE
    /\ connection_time = 0
    /\ scheme = <<"tcp">>
    /\ url = <<"host", ":", "502">>
    /\ url_parsed = <<>>
    /\ transport_protocol = <<>>
    /\ serving_forever = FALSE
    /\ timeout = 1
    /\ wrote = <<>>
    /\ received = <<>>
    /\ locked = FALSE
    /\ waiters = <<>>
    /\ woken = FALSE
    /\ pc = [c \in Clients |-> "none"]
    /\ attempt = [c \in Clients |-> 0]
    /\ request_frame = [c \in Clients |-> <<>>]
    /\ cst = [c \in Clients |-> "idle"]
    /\ cliIn = [c \in Clients |-> <<>>]
    /\ sent = [c \in Clients |-> <<>>]
    /\ written = [c \in Clients |-> <<>>]
    /\ session_end = [c \in Clients |-> "no"]
    /\ nstops = 0
    /\ raised = "none"
    /\ events = 0

\* What the two versions do not touch here.
bridgeVars ==
    <<upstreamVars, lockVars, clientVars, apiVars, retryVars, runVars,
      connection_time, scheme, url, url_parsed, transport_protocol,
      serving_forever, deviceUp, pc, attempt, request_frame, written,
      session_end, events>>

\* "async with self.lock:" entered, in both versions.
Acquired(v) == [v EXCEPT !.locked = TRUE, !.pc = "attempt"]

\* Version 0.5.0, "except Exception as error" of ModBus.write_read: log,
\* close; the loop goes on, and at its end the call returns None.
ModBus_write_read_except(v) ==
    IF v.i + 1 < Attempts
    THEN [v EXCEPT !.link = "none", !.i = @ + 1, !.pc = "attempt"]
    ELSE [v EXCEPT !.link = "none", !.result = "None", !.locked = FALSE,
                   !.pc = "reply"]

\* Version 0.5.0, ModBus.connect: nothing when opened; otherwise
\* ModBus.open, which sets reader and writer over the ones it had.
ModBus_connect(v) ==
    IF v.link = "open"
    THEN [v EXCEPT !.pc = "exchange"]
    ELSE IF results.connect[v.i] = "ok"
         THEN [v EXCEPT !.link = "open", !.pc = "exchange",
                        !.unclosed = IF v.link = "stale" THEN @ + 1 ELSE @]
         ELSE ModBus_write_read_except(v)

\* Version 0.5.0, ModBus._write_read under wait_for.
ModBus_write_read(v) ==
    IF results.exchange[v.i] = "response"
    THEN [v EXCEPT !.result = "response", !.locked = FALSE, !.pc = "reply"]
    ELSE ModBus_write_read_except(v)

\* Version 0.5.0, ModBus.handle_client after write_read: return on no
\* reply, and on a failed write to the client (Connection.write closes and
\* returns False); leaving "async with Client(...)" closes the client.
ModBus_handle_client(v) ==
    IF v.result = "None"
    THEN [v EXCEPT !.session = "closed", !.pc = "end"]
    ELSE IF results.client_write = "ok"
         THEN [v EXCEPT !.written = Append(@, DeviceReply(REQ_TCP)), !.pc = "end"]
         ELSE [v EXCEPT !.session = "closed", !.pc = "end"]

\* "except Exception as error" of Bridge.write_read_response_frame: close,
\* raise when i + 1 == attempts.
Bridge_write_read_response_frame_except(v) ==
    IF LastAttempt(v.i)
    THEN [v EXCEPT !.link = "none", !.result = "raise", !.locked = FALSE,
                   !.pc = "reply"]
    ELSE [v EXCEPT !.link = "none", !.i = @ + 1, !.pc = "attempt"]

\* "if not self.is_open: await self.open()": TCP.open closes the transport
\* it has, then connects.
Bridge_open(v) ==
    IF v.link = "open"
    THEN [v EXCEPT !.pc = "exchange"]
    ELSE IF results.connect[v.i] = "ok"
         THEN [v EXCEPT !.link = "open", !.pc = "exchange"]
         ELSE Bridge_write_read_response_frame_except(v)

\* protocol.write_read_response_frame under wait_for.
Bridge_write_read_response_frame(v) ==
    IF results.exchange[v.i] = "response"
    THEN [v EXCEPT !.result = "response", !.locked = FALSE, !.pc = "reply"]
    ELSE Bridge_write_read_response_frame_except(v)

\* Mutant: handle_client logs the error of the exchange and reads on.
Bridge_handle_client_keeps_session(v) ==
    IF v.result = "raise"
    THEN [v EXCEPT !.pc = "end"]
    ELSE IF results.client_write = "ok"
         THEN [v EXCEPT !.written = Append(@, DeviceReply(REQ_TCP)), !.pc = "end"]
         ELSE [v EXCEPT !.session = "closed", !.pc = "end"]

\* Bridge.handle_client after write_read_response_frame: "except
\* Exception" closes the client's transport and breaks, for the error of
\* the exchange and for the one of the write to the client.
Bridge_handle_client(v) ==
    IF v.result = "raise"
    THEN [v EXCEPT !.session = "closed", !.pc = "end"]
    ELSE IF results.client_write = "ok"
         THEN [v EXCEPT !.written = Append(@, DeviceReply(REQ_TCP)), !.pc = "end"]
         ELSE [v EXCEPT !.session = "closed", !.pc = "end"]

OldAcquire ==
    /\ old.pc = "call"
    /\ old' = Acquired(old)
    /\ UNCHANGED <<results, new, bridgeVars>>

OldConnect ==
    /\ old.pc = "attempt"
    /\ old' = ModBus_connect(old)
    /\ UNCHANGED <<results, new, bridgeVars>>

OldWriteRead ==
    /\ old.pc = "exchange"
    /\ old' = ModBus_write_read(old)
    /\ UNCHANGED <<results, new, bridgeVars>>

OldHandleClient ==
    /\ old.pc = "reply"
    /\ old' = ModBus_handle_client(old)
    /\ UNCHANGED <<results, new, bridgeVars>>

NewAcquire ==
    /\ new.pc = "call"
    /\ new' = Acquired(new)
    /\ UNCHANGED <<results, old, bridgeVars>>

NewOpen ==
    /\ new.pc = "attempt"
    /\ new' = Bridge_open(new)
    /\ UNCHANGED <<results, old, bridgeVars>>

NewWriteRead ==
    /\ new.pc = "exchange"
    /\ new' = Bridge_write_read_response_frame(new)
    /\ UNCHANGED <<results, old, bridgeVars>>

NewHandleClient ==
    /\ new.pc = "reply"
    /\ new' = Bridge_handle_client(new)
    /\ UNCHANGED <<results, old, bridgeVars>>

VersionNext ==
    \/ OldAcquire
    \/ OldConnect
    \/ OldWriteRead
    \/ OldHandleClient
    \/ NewAcquire
    \/ NewOpen
    \/ NewWriteRead
    \/ NewHandleClient

VersionSpec == VersionInit /\ [][VersionNext]_vars

\* What the client and the next call see of a version that is done: the
\* frames written to the client, the session, the upstream, the lock.
Outcome(v) == <<v.written, v.session, v.link, v.locked>>

\* C35: on the same results the two versions end the same way: the same
\* frames written to the client, the session, the upstream and the lock in
\* the same state; after a response the client has the device's reply
\* unless the write to it failed; and where the last attempt fails the old
\* one returns None and the new one raises, nothing is written, the session
\* is over, the upstream closed, and in every case the lock is free.
C35_SameOutcome ==
    (old.pc = "end" /\ new.pc = "end") =>
        /\ Outcome(old) = Outcome(new)
        /\ ~old.locked /\ ~new.locked
        /\ old.result = "response" <=> new.result = "response"
        /\ old.result = "None" <=> new.result = "raise"
        /\ (new.result = "response" /\ results.client_write = "ok") =>
               /\ new.written = <<REP_TCP>>
               /\ new.session = "open"
               /\ new.link = "open"
        /\ new.result = "raise" =>
               /\ new.written = <<>>
               /\ new.session = "closed"
               /\ new.link = "none"

\* Both versions are done with a call whose two attempts failed, the first
\* at the connect and the second after it: one returned None, the other
\* raised.
C35_Witness ==
    /\ old.pc = "end"
    /\ new.pc = "end"
    /\ results.connect[0] # "ok"
    /\ results.connect[1] = "ok"
    /\ results.exchange[1] = "timeout"
    /\ old.result = "None"
    /\ new.result = "raise"

====
